---------------------------- MODULE Spec2Model ----------------------------
(***************************************************************************)
(* A model of the DDP compiler (bafto/DDP): the refcount pool of the       *)
(* runtime (lib/runtime/source/DDP/ddprefcount.c), the text operators of   *)
(* the runtime (lib/runtime/source/operators.c), the include mechanism of  *)
(* the scanner (pkg/scanner/scanner.go), the resolver / type checker /     *)
(* emitter pipeline and the IR emitter (compiler.go).                      *)
(*                                                                         *)
(* Every subsystem has a specification of its own (SpecPool, SpecEmit ...) *)
(* over the same variables; a specification leaves the variables of the    *)
(* other subsystems at their idle value.                                   *)
(***************************************************************************)
EXTENDS Integers, Sequences, FiniteSets, TLC

VARIABLES
    pool,       \* the globals of ddprefcount.c: refc_root, refc_end, block_cache and the heap of RefcBlocks
    held,       \* refcount addresses <<block, index>> returned to the caller and not yet freed
    poolOp,     \* the last public pool operation
    refcount,   \* the address that operation returned (allocate) or was given (free)
    txt,        \* the ddpstring the text operators work on: buffer bytes and cap
    txtOp,      \* the last text operator applied
    txtIn,      \* the arguments of that operator
    fs,         \* the files on disk: the tokens and include directives of each
    scn,        \* the chain of scanners: the root scanner, its include, the include of that ...
    out,        \* the tokens ScanAll has collected
    ast,        \* the syntax tree handed down the pipeline: its statements and its Faulty flag
    stage,      \* how far the pipeline has come: parsed, resolved, checked, compiled
    diag,       \* the Errored flag each front-end stage ended with
    mod,        \* what Compile returned: the error and the IR module
    run,        \* one execution of the emitted IR: registers, stack slots, heap objects
    checker,    \* a Typechecker at work on expressions: Errored and latestReturnedType
    returned,   \* the expression of the last call of Evaluate, and the type it returned
    lowered,    \* what the emitter has made of that expression: its panic, the IR type of the value
    lex,        \* a Scanner at work on literals: src, start, cur
    tok,        \* the token the last NextToken returned, and the diagnostics of that call
    bsIn,       \* the ByteSammlung arguments a and b of a call into bytes.c
    bsRet,      \* the ByteSammlung that call wrote to *ret
    proc        \* execute_process and its child: where each stands, what the pipes hold

poolVars == <<pool, held, poolOp, refcount>>

textVars == <<txt, txtOp, txtIn>>

scanVars == <<fs, scn, out>>

emitVars == <<ast, stage, diag, mod, run>>

exprVars == <<checker, returned, lowered>>

lexVars == <<lex, tok>>

bytesVars == <<bsIn, bsRet>>

procVars == <<proc>>

libVars == <<bsIn, bsRet, proc>>

vars == <<pool, held, poolOp, refcount, txt, txtOp, txtIn, fs, scn, out, ast, stage, diag, mod, run,
          checker, returned, lowered, lex, tok, bsIn, bsRet, proc>>

(***************************************************************************)
(*                        THE REFCOUNT POOL                                *)
(***************************************************************************)

\* Number of RefcBlock addresses the system allocator can hand out.
MaxBlocks == 3

\* REFC_PER_BLOCK is 64 in ddprefcount.c:40; the model scales the block down
\* (the bitmap is the set of used indices 0..REFC_PER_BLOCK-1).
REFC_PER_BLOCK == 2

\* CACHED_BLOCKS is 16 in ddprefcount.c:55; scaled down so the cache fills.
CACHED_BLOCKS == 1

NULL == 0

BlockIds == 1..MaxBlocks

Slots == 0..(REFC_PER_BLOCK - 1)

\* uint64_t used, as the set of indices whose bit is 1
ALL_FREE == {}

ALL_USED == Slots

\* struct RefcBlock; mem is the state of the allocation the block lives in:
\* "none" (never allocated), "alloc" (allocated), "freed" (given to DDP_FREE)
RefcBlock == [prev : BlockIds \cup {NULL}, next : BlockIds \cup {NULL},
              used : SUBSET Slots, mem : {"none", "alloc", "freed"}]

\* static RefcBlock *refc_root = NULL, *refc_end = NULL; block_cache = {0}
PoolInit ==
    [root  |-> NULL,
     end   |-> NULL,
     cache |-> [i \in 1..CACHED_BLOCKS |-> NULL],
     heap  |-> [b \in BlockIds |-> [prev |-> NULL, next |-> NULL, used |-> ALL_FREE,
                                    mem |-> "none"]],
     ub    |-> FALSE,      \* a block outside its lifetime was accessed
     halted |-> FALSE,     \* ddp_runtime_error ended the process
     torn  |-> FALSE]      \* ddp_free_refc_blocks was called

\* DDP_ALLOCATE(RefcBlock, 1): an address that is not allocated at the moment
FreshBlocks(p) == {b \in BlockIds : p.heap[b].mem # "alloc"}

DDP_ALLOCATE(p) == CHOOSE b \in FreshBlocks(p) : \A c \in FreshBlocks(p) : b <= c

\* DDP_FREE(RefcBlock, block); freeing a block that is not allocated is a double free
\* (the contents of a released block are gone)
DDP_FREE(p, b) ==
    [p EXCEPT !.heap[b] = [prev |-> NULL, next |-> NULL, used |-> ALL_FREE, mem |-> "freed"],
              !.ub = p.ub \/ p.heap[b].mem # "alloc"]

\* the first cache entry that holds a block, 0 if there is none
FirstCached(p) ==
    IF \E i \in 1..CACHED_BLOCKS : p.cache[i] # NULL
    THEN CHOOSE i \in 1..CACHED_BLOCKS :
            /\ p.cache[i] # NULL
            /\ \A j \in 1..(i - 1) : p.cache[j] = NULL
    ELSE 0

\* the first empty cache entry, 0 if there is none
FirstEmpty(p) ==
    IF \E i \in 1..CACHED_BLOCKS : p.cache[i] = NULL
    THEN CHOOSE i \in 1..CACHED_BLOCKS :
            /\ p.cache[i] = NULL
            /\ \A j \in 1..(i - 1) : p.cache[j] # NULL
    ELSE 0

\* mutant: the block is linked behind refc_end but refc_end is not moved
new_refc_block_noend(p) ==
    LET i     == FirstCached(p)
        block == IF i # 0 THEN p.cache[i] ELSE DDP_ALLOCATE(p)
        p1    == IF i # 0 THEN [p EXCEPT !.cache[i] = NULL]
                 ELSE [p EXCEPT !.heap[block].mem = "alloc"]
        p2    == IF p1.end # NULL
                 THEN [p1 EXCEPT !.heap[p1.end].next = block,
                                 !.heap[block].prev = p1.end]
                 ELSE [p1 EXCEPT !.heap[block].prev = NULL]
        p3    == [p2 EXCEPT !.heap[block].next = NULL,
                            !.heap[block].used = ALL_FREE]
    IN [p |-> p3, block |-> block]

\* static RefcBlock *new_refc_block(void)
new_refc_block(p) ==
    LET i     == FirstCached(p)
        block == IF i # 0 THEN p.cache[i] ELSE DDP_ALLOCATE(p)
        \* a cached pointer to a block that was given to DDP_FREE is dangling
        dang  == i # 0 /\ p.heap[block].mem # "alloc"
        p1    == IF i # 0 THEN [p EXCEPT !.cache[i] = NULL, !.ub = p.ub \/ dang]
                 ELSE [p EXCEPT !.heap[block].mem = "alloc"]
        p2    == IF p1.end # NULL
                 THEN [p1 EXCEPT !.heap[p1.end].next = block,
                                 !.heap[block].prev = p1.end]
                 ELSE [p1 EXCEPT !.heap[block].prev = NULL]
        p3    == [p2 EXCEPT !.heap[block].next = NULL,
                            !.end = block,
                            !.heap[block].used = ALL_FREE]
    IN [p |-> p3, block |-> block]

\* mutant: the block is given to DDP_FREE whatever the cache holds
free_refc_block_uncached(p, block) ==
    LET b  == p.heap[block]
        p1 == IF block = p.root THEN [p EXCEPT !.root = p.heap[p.root].next] ELSE p
        p2 == IF block = p1.end THEN [p1 EXCEPT !.end = p1.heap[p1.end].prev] ELSE p1
        p3 == IF b.prev # NULL THEN [p2 EXCEPT !.heap[b.prev].next = b.next] ELSE p2
        p4 == IF b.next # NULL THEN [p3 EXCEPT !.heap[b.next].prev = b.prev] ELSE p3
    IN DDP_FREE(p4, block)

\* static void free_refc_block(RefcBlock *block)
free_refc_block(p, block) ==
    LET b  == p.heap[block]
        p1 == IF block = p.root THEN [p EXCEPT !.root = p.heap[p.root].next] ELSE p
        p2 == IF block = p1.end THEN [p1 EXCEPT !.end = p1.heap[p1.end].prev] ELSE p1
        p3 == IF b.prev # NULL THEN [p2 EXCEPT !.heap[b.prev].next = b.next] ELSE p2
        p4 == IF b.next # NULL THEN [p3 EXCEPT !.heap[b.next].prev = b.prev] ELSE p3
        i  == FirstEmpty(p4)
    IN IF i # 0 THEN [p4 EXCEPT !.cache[i] = block] ELSE DDP_FREE(p4, block)

\* the loop of next_block_with_capa: walk from it towards the root
RECURSIVE scan_capa(_, _)
scan_capa(p, it) ==
    IF p.heap[it].used = ALL_USED
    THEN IF p.heap[it].prev = NULL
         THEN new_refc_block(p)
         ELSE scan_capa(p, p.heap[it].prev)
    ELSE [p |-> p, block |-> it]

\* static RefcBlock *next_block_with_capa(void)
next_block_with_capa(p) ==
    IF p.root = NULL
    THEN LET r == new_refc_block(p)
         IN [p |-> [r.p EXCEPT !.root = r.block], block |-> r.block]
    ELSE scan_capa(p, p.end)

\* mutant: the index of the highest zero bit
last_zero(used) == CHOOSE i \in Slots : i \notin used /\ \A j \in Slots : j > i => j \in used

\* ffsll(~block->used) - 1: the index of the lowest zero bit
first_zero(used) == CHOOSE i \in Slots : i \notin used /\ \A j \in Slots : j < i => j \in used

\* mutant: the slot is handed out but its used bit is not set
allocate_refc_nobit(p, block) ==
    [p |-> p, refc |-> <<block, first_zero(p.heap[block].used)>>]

\* static ddpint *allocate_refc(RefcBlock *block)
allocate_refc(p, block) ==
    LET fz == first_zero(p.heap[block].used)
    IN [p |-> [p EXCEPT !.heap[block].used = @ \cup {fz}], refc |-> <<block, fz>>]

\* static bool refc_in_block(ddpint *refc, RefcBlock *block)
refc_in_block(refc, block) == refc[1] = block /\ refc[2] >= 0 /\ refc[2] <= REFC_PER_BLOCK - 1

\* static RefcBlock *get_block_of_refc(ddpint *refc)
RECURSIVE get_block_from(_, _, _)
get_block_from(p, refc, it) ==
    IF it # NULL /\ ~refc_in_block(refc, it)
    THEN get_block_from(p, refc, p.heap[it].prev)
    ELSE it

get_block_of_refc(p, refc) == get_block_from(p, refc, p.end)

\* mutant: the whole bitmap of the block is cleared
free_refc_whole(p, block, refc) ==
    free_refc_block([p EXCEPT !.heap[block].used = ALL_FREE], block)

\* mutant: the bit is cleared and the block stays where it is
free_refc_kept(p, block, refc) ==
    [p EXCEPT !.heap[block].used = @ \ {refc[2]}]

\* static void free_refc(RefcBlock *block, ddpint *refc)
free_refc(p, block, refc) ==
    LET index == refc[2]
        p1    == [p EXCEPT !.heap[block].used = @ \ {index}]
    IN IF p1.heap[block].used = ALL_FREE THEN free_refc_block(p1, block) ELSE p1

\* the blocks reached from it over prev (at most n of them)
RECURSIVE chain_prev(_, _, _)
chain_prev(p, it, n) ==
    IF it = NULL \/ n = 0 THEN {} ELSE {it} \cup chain_prev(p, p.heap[it].prev, n - 1)

\* the blocks reached from it over next (at most n of them)
RECURSIVE chain_next(_, _, _)
chain_next(p, it, n) ==
    IF it = NULL \/ n = 0 THEN {} ELSE {it} \cup chain_next(p, p.heap[it].next, n - 1)

\* the blocks linked in the list, seen from refc_end
Linked(p) == chain_prev(p, p.end, MaxBlocks)

\* the states in which next_block_with_capa asks the system allocator for a block
NeedsAllocator(p) ==
    /\ FirstCached(p) = 0
    /\ (p.root = NULL \/ \A b \in Linked(p) : p.heap[b].used = ALL_USED)

PoolRunning == ~pool.ub /\ ~pool.halted

\* ddpint *ddp_allocate_refcount(void)
ddp_allocate_refcount ==
    /\ PoolRunning
    /\ NeedsAllocator(pool) => FreshBlocks(pool) # {}
    /\ LET r == next_block_with_capa(pool)
           a == allocate_refc(r.p, r.block)
       IN /\ pool' = a.p
          /\ held' = held \cup {a.refc}
          /\ poolOp' = "alloc"
          /\ refcount' = a.refc
    /\ UNCHANGED <<textVars, scanVars, emitVars, exprVars, lexVars, libVars>>

\* void ddp_free_refcount(ddpint *refc)
ddp_free_refcount ==
    /\ PoolRunning
    /\ \E refc \in held :
          LET block == get_block_of_refc(pool, refc)
          IN /\ pool' = IF block = NULL
                        THEN [pool EXCEPT !.halted = TRUE]   \* ddp_runtime_error(1, ...)
                        ELSE free_refc(pool, block, refc)
             /\ held' = held \ {refc}
             /\ poolOp' = "free"
             /\ refcount' = refc
    /\ UNCHANGED <<textVars, scanVars, emitVars, exprVars, lexVars, libVars>>

\* the loop over the list in ddp_free_refc_blocks
RECURSIVE free_list(_, _)
free_list(p, it) ==
    IF it = NULL THEN p
    ELSE free_list(DDP_FREE(p, it), p.heap[it].next)

\* the loop over block_cache in ddp_free_refc_blocks
RECURSIVE free_cache(_, _)
free_cache(p, i) ==
    IF i > CACHED_BLOCKS THEN p
    ELSE free_cache(IF p.cache[i] # NULL THEN DDP_FREE(p, p.cache[i]) ELSE p, i + 1)

\* void ddp_free_refc_blocks(void); called once, at process exit
ddp_free_refc_blocks ==
    /\ PoolRunning
    /\ ~pool.torn
    /\ LET p1 == free_list(pool, pool.root)
           p2 == [p1 EXCEPT !.root = NULL, !.end = NULL]
           p3 == free_cache(p2, 1)
       IN pool' = [p3 EXCEPT !.torn = TRUE]
    /\ held' = held
    /\ poolOp' = "teardown"
    /\ refcount' = <<NULL, 0>>
    /\ UNCHANGED <<textVars, scanVars, emitVars, exprVars, lexVars, libVars>>

PoolIdle ==
    /\ pool = PoolInit
    /\ held = {}
    /\ poolOp = "none"
    /\ refcount = <<NULL, 0>>

(***************************************************************************)
(*                  THE TEXT OPERATORS OF THE RUNTIME                      *)
(***************************************************************************)

\* Largest number of characters of a text the operators are applied to.
MaxChars == 2

\* code points whose UTF-8 encoding has 1, 2, 3 and 4 bytes (a, a-umlaut, euro sign, an emoji)
CodePoints == {97, 228, 8364, 128512}

\* the ddpchar arguments: these code points and one value beyond the last Unicode scalar
CharArgs == CodePoints \cup {1114112}

\* the ddpint arguments of inbuilt_int_to_string
IntArgs == {-12, 0, 7, 105}

\* a C array is indexed from 0
At(s, i) == s[i + 1]

\* int utf8_char_to_string(char *buf, ddpchar c): the bytes written and the count returned
utf8_char_to_string(c) ==
    IF c < 0 THEN [n |-> -1, b |-> <<>>]
    ELSE IF c < 128 THEN [n |-> 1, b |-> <<c>>]
    ELSE IF c < 2048 THEN [n |-> 2, b |-> <<192 + (c \div 64), 128 + (c % 64)>>]
    ELSE IF c < 65536 THEN
        [n |-> 3, b |-> <<224 + (c \div 4096), 128 + ((c \div 64) % 64), 128 + (c % 64)>>]
    ELSE IF c < 1114112 THEN
        [n |-> 4, b |-> <<240 + (c \div 262144), 128 + ((c \div 4096) % 64),
                          128 + ((c \div 64) % 64), 128 + (c % 64)>>]
    ELSE [n |-> -1, b |-> <<>>]

\* the length the first byte of a character announces
utf8_indicated_num_bytes(b) ==
    IF b < 128 THEN 1
    ELSE IF b >= 192 /\ b < 224 THEN 2
    ELSE IF b >= 224 /\ b < 240 THEN 3
    ELSE IF b >= 240 /\ b < 248 THEN 4
    ELSE 0

IsContinuation(b) == b >= 128 /\ b < 192

\* the length of the character at s + i, 0 when its bytes are no well-formed character
utf8_num_bytes(s, i) ==
    LET n == utf8_indicated_num_bytes(At(s, i))
    IN IF n > 0 /\ i + n <= Len(s) /\ \A k \in 1..(n - 1) : IsContinuation(At(s, i + k))
       THEN n ELSE 0

\* size_t strlen(const char *s), read from offset i
RECURSIVE strlen_from(_, _)
strlen_from(s, i) == IF i >= Len(s) \/ At(s, i) = 0 THEN 0 ELSE 1 + strlen_from(s, i + 1)

strlen(s) == strlen_from(s, 0)

\* size_t utf8_strlen(const char *s): the characters before the terminator
utf8_strlen(s) == Cardinality({i \in 0..(strlen(s) - 1) : ~IsContinuation(At(s, i))})

\* ALLOCATE(char, n): n bytes of indeterminate content (every operator below
\* writes each byte it allocates before it returns)
ALLOCATE(n) == [k \in 1..n |-> 255]

\* reallocate(ptr, oldsize, newsize): the old bytes, then indeterminate ones
reallocate(buf, old, new) == [k \in 1..new |-> IF k <= Len(buf) THEN buf[k] ELSE 255]

\* memcpy(dst + doff, src + soff, n) and memmove, which differ only for overlapping ranges
memcpy(dst, doff, src, soff, n) ==
    [k \in 1..Len(dst) |-> IF k - 1 >= doff /\ k - 1 < doff + n THEN src[soff + k - doff] ELSE dst[k]]

\* a ddpstring: the char array behind str and the cap field
ddpstring(bytes, cap) == [str |-> bytes, cap |-> cap, err |-> FALSE]

\* runtime_error(1, ...) ends the process
runtime_error(s) == [s EXCEPT !.err = TRUE]

\* the byte sequences of up to n characters
RECURSIVE Contents(_)
Contents(n) ==
    IF n = 0 THEN {<<>>}
    ELSE Contents(n - 1) \cup
         {s \o utf8_char_to_string(c).b : s \in Contents(n - 1), c \in CodePoints}

\* the texts the front end hands to the operators: null-terminated, cap = bytes + 1
Texts == {ddpstring(s \o <<0>>, Len(s) + 1) : s \in Contents(MaxChars)}

\* the loop of inbuilt_string_index and inbuilt_replace_char_in_string
RECURSIVE seek_char(_, _, _)
seek_char(s, i, len) ==
    IF At(s, i) # 0 /\ len > 1 THEN seek_char(s, i + utf8_num_bytes(s, i), len - 1) ELSE i

\* void inbuilt_replace_char_in_string(ddpstring *str, ddpchar ch, ddpint index)
inbuilt_replace_char_in_string(str, ch, index) ==
    IF index > str.cap \/ index < 1 \/ str.cap <= 1 THEN runtime_error(str)
    ELSE LET i == seek_char(str.str, 0, index)
             oldCharLen == utf8_num_bytes(str.str, i)
             newChar == utf8_char_to_string(ch)
             newCharLen == newChar.n
         IN IF At(str.str, i) = 0 THEN runtime_error(str)
            ELSE IF oldCharLen = newCharLen THEN
                [str EXCEPT !.str = memcpy(str.str, i, newChar.b, 0, newCharLen)]
            ELSE IF oldCharLen > newCharLen THEN
                LET s1 == memcpy(str.str, i, newChar.b, 0, newCharLen)
                IN [str EXCEPT !.str = memcpy(s1, i + newCharLen, s1, i + oldCharLen,
                                              str.cap - i - oldCharLen)]
            ELSE
                LET newStrCap == str.cap - oldCharLen + newCharLen
                    n1 == memcpy(ALLOCATE(newStrCap), 0, str.str, 0, i)
                    n2 == memcpy(n1, i, newChar.b, 0, newCharLen)
                    n3 == memcpy(n2, i + newCharLen, str.str, i + oldCharLen,
                                 str.cap - i - oldCharLen)
                IN [str EXCEPT !.cap = newStrCap, !.str = n3]

clamp(i, min, max) ==
    LET t == IF i < min THEN min ELSE i
    IN IF t > max THEN max ELSE t

\* the two loops of inbuilt_string_slice: advance to the character of index target
RECURSIVE seek_index(_, _, _, _)
seek_index(s, i, len, target) ==
    IF At(s, i) # 0 /\ len # target
    THEN seek_index(s, i + utf8_indicated_num_bytes(At(s, i)), len + 1, target)
    ELSE [i |-> i, len |-> len]

\* ddpstring *inbuilt_string_slice(ddpstring *str, ddpint index1, ddpint index2)
inbuilt_string_slice(str, index1, index2) ==
    IF str.cap <= 1 THEN str
    ELSE LET start_length == utf8_strlen(str.str)
             x1 == clamp(index1, 1, start_length)
             x2 == clamp(index2, 1, start_length)
         IN IF x2 < x1 THEN runtime_error(str)
            ELSE LET p1 == seek_index(str.str, 0, 0, x1 - 1)
                     p2 == seek_index(str.str, p1.i, p1.len, x2 - 1)
                     new_str_cap == (p2.i - p1.i) + 2
                     string == memcpy(ALLOCATE(new_str_cap), 0, str.str, p1.i, new_str_cap - 1)
                 IN [str EXCEPT !.cap = new_str_cap,
                                !.str = [string EXCEPT ![new_str_cap] = 0]]

\* ddpstring *inbuilt_string_string_verkettet(ddpstring *str1, ddpstring *str2)
inbuilt_string_string_verkettet(str1, str2) ==
    LET new_cap == str1.cap - 1 + str2.cap
        s1 == reallocate(str1.str, str1.cap, new_cap)
    IN [str1 EXCEPT !.str = memcpy(s1, str1.cap - 1, str2.str, 0, str2.cap),
                    !.cap = new_cap]

\* the count of bytes the concatenations take from utf8_char_to_string
num_bytes_of(c) == IF utf8_char_to_string(c).n = -1 THEN 0 ELSE utf8_char_to_string(c).n

\* ddpstring *inbuilt_char_string_verkettet(ddpchar c, ddpstring *str)
inbuilt_char_string_verkettet(c, str) ==
    LET temp == utf8_char_to_string(c).b
        num_bytes == num_bytes_of(c)
        new_cap == str.cap + num_bytes
        s1 == reallocate(str.str, str.cap, new_cap)
        s2 == memcpy(s1, num_bytes, s1, 0, str.cap)
    IN [str EXCEPT !.str = memcpy(s2, 0, temp, 0, num_bytes), !.cap = new_cap]

\* ddpstring *inbuilt_string_char_verkettet(ddpstring *str, ddpchar c)
inbuilt_string_char_verkettet(str, c) ==
    LET temp == utf8_char_to_string(c).b
        num_bytes == num_bytes_of(c)
        new_cap == str.cap + num_bytes
        s1 == reallocate(str.str, str.cap, new_cap)
        s2 == memcpy(s1, str.cap - 1, temp, 0, num_bytes)
    IN [str EXCEPT !.str = [s2 EXCEPT ![new_cap] = 0]]

\* sprintf(buffer, "%lld", i): the decimal digits of i
RECURSIVE digits(_)
digits(n) == IF n < 10 THEN <<48 + n>> ELSE Append(digits(n \div 10), 48 + (n % 10))

sprintf_lld(i) == IF i < 0 THEN <<45>> \o digits(-i) ELSE digits(i)

\* ddpstring *inbuilt_int_to_string(ddpint i)
inbuilt_int_to_string(i) ==
    LET buffer == sprintf_lld(i)
        len == Len(buffer)
        string == memcpy(ALLOCATE(len + 1), 0, buffer, 0, len)
    IN ddpstring([string EXCEPT ![len + 1] = 0], len + 1)

\* ddpstring *inbuilt_bool_to_string(ddpbool b): "wahr" or "falsch" with the terminator
inbuilt_bool_to_string(b) ==
    IF b THEN ddpstring(memcpy(ALLOCATE(5), 0, <<119, 97, 104, 114, 0>>, 0, 5), 5)
    ELSE ddpstring(memcpy(ALLOCATE(7), 0, <<102, 97, 108, 115, 99, 104, 0>>, 0, 7), 7)

\* ddpstring *inbuilt_char_to_string(ddpchar c)
inbuilt_char_to_string(c) ==
    LET temp == utf8_char_to_string(c).b
        num_bytes == num_bytes_of(c)
        string == memcpy(ALLOCATE(num_bytes + 1), 0, temp, 0, num_bytes)
    IN ddpstring([string EXCEPT ![num_bytes + 1] = 0], num_bytes + 1)

NoArgs == [a |-> 0, b |-> 0, t |-> <<>>]

\* one operator is applied to the text the specification started from
TextCall(op, result, args) ==
    /\ txtOp = "none"
    /\ txt' = result
    /\ txtOp' = op
    /\ txtIn' = [s |-> txt.str, a |-> args.a, b |-> args.b, t |-> args.t]
    /\ UNCHANGED <<poolVars, scanVars, emitVars, exprVars, lexVars, libVars>>

Slice ==
    \E i1 \in 0..(MaxChars + 1), i2 \in 0..(MaxChars + 1) :
        TextCall("slice", inbuilt_string_slice(txt, i1, i2), [NoArgs EXCEPT !.a = i1, !.b = i2])

StringStringVerkettet ==
    \E t \in Texts :
        TextCall("string_string", inbuilt_string_string_verkettet(txt, t), [NoArgs EXCEPT !.t = t.str])

CharStringVerkettet ==
    \E c \in CharArgs :
        TextCall("char_string", inbuilt_char_string_verkettet(c, txt), [NoArgs EXCEPT !.a = c])

StringCharVerkettet ==
    \E c \in CharArgs :
        TextCall("string_char", inbuilt_string_char_verkettet(txt, c), [NoArgs EXCEPT !.a = c])

\* the emitter passes a Buchstabe it evaluated: a Unicode scalar
ReplaceChar ==
    \E ch \in CodePoints, index \in 0..(MaxChars + 1) :
        TextCall("replace", inbuilt_replace_char_in_string(txt, ch, index),
                 [NoArgs EXCEPT !.a = ch, !.b = index])

IntToString ==
    \E i \in IntArgs : TextCall("int_to_string", inbuilt_int_to_string(i), [NoArgs EXCEPT !.a = i])

BoolToString ==
    \E b \in BOOLEAN :
        TextCall("bool_to_string", inbuilt_bool_to_string(b), [NoArgs EXCEPT !.a = IF b THEN 1 ELSE 0])

CharToString ==
    \E c \in CharArgs : TextCall("char_to_string", inbuilt_char_to_string(c), [NoArgs EXCEPT !.a = c])

TextIdle ==
    /\ txt = ddpstring(<<0>>, 1)
    /\ txtOp = "none"
    /\ txtIn = [s |-> <<0>>, a |-> 0, b |-> 0, t |-> <<>>]


(***************************************************************************)
(*                  THE INCLUDE DIRECTIVES OF THE SCANNER                  *)
(***************************************************************************)

\* Largest number of `Binde "..." ein.` directives in all files together.
MaxDirectives == 5

\* A path is the sequence of its components, "/" first when it is absolute;
\* the last component names a .ddp file.
cwd == <<"/", "p">>

DDPPATH == <<"/", "ddp">>

\* the .ddp files on disk
FilePaths == {<<"/", "p", "a">>, <<"/", "p", "b">>, <<"/", "p", "sub", "c">>,
              <<"/", "ddp", "Duden", "d">>}

\* the path the compiler is started with
RootPath == <<"a">>

\* the text literals of the directives
Literals == {<<"b">>, <<"sub", "c">>, <<"..", "a">>, <<"Duden", "d">>}

\* filepath.Clean: a ".." component removes the component before it; "/.." is
\* "/", and a relative path keeps the ".." components it starts with
Parent(p) ==
    IF p = <<>> \/ p[Len(p)] = ".." THEN Append(p, "..")
    ELSE IF p = <<"/">> THEN p
    ELSE SubSeq(p, 1, Len(p) - 1)

RECURSIVE Clean(_)
Clean(p) ==
    IF p = <<>> THEN <<>>
    ELSE IF p[Len(p)] = ".." THEN Parent(Clean(SubSeq(p, 1, Len(p) - 1)))
    ELSE Append(Clean(SubSeq(p, 1, Len(p) - 1)), p[Len(p)])

\* filepath.Join, filepath.Dir, filepath.Abs
Join(d, p) == Clean(d \o p)

Dir(p) == SubSeq(p, 1, Len(p) - 1)

Abs(p) == IF p # <<>> /\ p[1] = "/" THEN Clean(p) ELSE Join(cwd, p)

\* in a source, a token that is not part of a directive; every other element
\* of a source is the text literal of a directive `Binde "..." ein.`
Tok == <<>>

\* the source of a file as the scanner meets it: tokens and directives
Items(src) ==
    [k \in 1..Len(src) |->
        IF src[k] = Tok THEN [type |-> "TOKEN", lit |-> <<>>]
        ELSE [type |-> "BINDE", lit |-> src[k]]]

\* a source with these directives and one token before, between and behind them
Interleaved(directives) ==
    [k \in 1..(2 * Len(directives) + 1) |-> IF k % 2 = 1 THEN Tok ELSE directives[k \div 2]]

\* scanner.New(filePath, nil, ...): the source is read from filePath
New(filePath) ==
    [file |-> filePath, cur |-> 1, includedFiles |-> {Abs(filePath)}]

\* os.ReadFile succeeds
Readable(filePath) == Abs(filePath) \in FilePaths

\* the inner scanner that drops the outer set (a scanner as New returns it)
inherit_nothing(include, s) == include

\* identifier(): "append the already included files"
inherit(include, s) ==
    [include EXCEPT !.includedFiles = @ \cup s.includedFiles]

\* identifier(): the path a directive of the scanner s names
inclPath(s, lit) ==
    IF lit[1] = "Duden" THEN Join(DDPPATH, lit)
    ELSE Abs(Join(Dir(s.file), lit))

newToken(s, type) == [type |-> type, file |-> s.file, n |-> s.cur]

\* identifier() with tokenType = BINDE in the scanner S[k]: the literal, `ein`
\* and `.` are consumed and the file is included unless it was included before
identifier(S, k, lit) ==
    LET s == [S[k] EXCEPT !.cur = @ + 1]
        path == inclPath(s, lit)
    IN IF path \notin s.includedFiles /\ Readable(path)
       THEN Append([S EXCEPT ![k] = s], inherit(New(path), s))
       ELSE [S EXCEPT ![k] = s]

\* NextToken of the scanner at depth k of the chain S of scanners, in which
\* S[k + 1] is the include of S[k]; disk is the content of the files
RECURSIVE NextToken(_, _, _)
\* the part of NextToken after the delegation: the scanner reads its own source
scanOwn(disk, S, k) ==
    LET s == S[k]
        src == Items(disk[Abs(s.file)])
    IN IF s.cur > Len(src) THEN [scn |-> S, tok |-> newToken(s, "EOF")]
       ELSE IF src[s.cur].type = "TOKEN"
       THEN [scn |-> [S EXCEPT ![k].cur = @ + 1], tok |-> newToken(s, "TOKEN")]
       ELSE NextToken(disk, identifier(S, k, src[s.cur].lit), k)

\* mutant: the token of the include is returned whatever it is
afterInclude_any(disk, r, k) == r

\* NextToken when the include returned the token r.tok
afterInclude(disk, r, k) ==
    IF r.tok.type = "EOF"
    THEN scanOwn(disk,
                 [SubSeq(r.scn, 1, k) EXCEPT ![k].includedFiles = r.scn[k + 1].includedFiles],
                 k)
    ELSE r

NextToken(disk, S, k) ==
    IF Len(S) > k   \* s.include != nil
    THEN afterInclude(disk, NextToken(disk, S, k + 1), k)
    ELSE scanOwn(disk, S, k)

ScanFinished == out # <<>> /\ out[Len(out)].type = "EOF"

\* one iteration of the loop of ScanAll: the next token of the root scanner is appended
ScanAll ==
    /\ scn # <<>>
    /\ ~ScanFinished
    /\ LET r == NextToken(fs, scn, 1)
       IN /\ scn' = r.scn
          /\ out' = Append(out, r.tok)
    /\ UNCHANGED <<fs, poolVars, textVars, emitVars, exprVars, lexVars, libVars>>

ScanIdle ==
    /\ fs = <<>>
    /\ scn = <<>>
    /\ out = <<>>

RECURSIVE SeqsOver(_, _)
\* the sequences over S of length n or less
SeqsOver(S, n) ==
    IF n = 0 THEN {<<>>}
    ELSE SeqsOver(S, n - 1) \cup {Append(q, x) : q \in SeqsOver(S, n - 1), x \in S}

RECURSIVE SumLen(_, _)
SumLen(d, P) ==
    IF P = {} THEN 0
    ELSE LET p == CHOOSE q \in P : TRUE IN Len(d[p]) + SumLen(d, P \ {p})

\* the file f is named by a directive of another file
Named(d, f) ==
    \E g \in FilePaths \ {f} : \E i \in 1..Len(d[g]) : inclPath([file |-> g], d[g][i]) = f

\* the contents of the disk: the directives of every file; a file that no
\* directive names is never read, and is left without directives
Directives ==
    {d \in [FilePaths -> SeqsOver(Literals, 2)] :
        /\ SumLen(d, FilePaths) <= MaxDirectives
        /\ \A f \in FilePaths : (f # Abs(RootPath) /\ d[f] # <<>>) => Named(d, f)}

Disks == {[f \in FilePaths |-> Interleaved(d[f])] : d \in Directives}

\* the longest source of the disks below
MaxItems == 3

\* disks on which a source begins or ends with a directive, has directives
\* next to each other, or has no token at all: a includes b and sub/c, b
\* includes sub/c, sub/c includes a
SourceDisks ==
    {[f \in FilePaths |->
        CASE f = <<"/", "p", "a">> -> sa
          [] f = <<"/", "p", "b">> -> sb
          [] f = <<"/", "p", "sub", "c">> -> sc
          [] OTHER -> <<Tok>>] :
        sa \in SeqsOver({Tok, <<"b">>, <<"sub", "c">>}, MaxItems),
        sb \in SeqsOver({Tok, <<"sub", "c">>}, MaxItems - 2),
        sc \in SeqsOver({Tok, <<"..", "a">>}, MaxItems - 2)}

(***************************************************************************)
(*                  THE SYNTAX TREE AND THE FRONT END                      *)
(***************************************************************************)
MaxStmts == 3           \* statements of a function body, the nested ones included

\* token.DDPType: a primitive type, and whether the type is a list of it
DDPType(prim, list) == [PrimitiveType |-> prim, IsList |-> list]

DDPVoidType == DDPType("NICHTS", FALSE)

DDPIntType == DDPType("ZAHL", FALSE)

DDPBoolType == DDPType("BOOLEAN", FALSE)

DDPStringType == DDPType("TEXT", FALSE)

\* a node of the syntax tree: its type, its name (Name.Literal, or the Func
\* of a ReturnStmt), its declared type, its parameters (ParamNames,
\* ParamTypes) and its children in the order of the struct fields
Node(kind, name, typ, params, kids) ==
    [node |-> kind, name |-> name, typ |-> typ, params |-> params, kids |-> kids]

Ident(name) == Node("Ident", name, DDPVoidType, <<>>, <<>>)

\* a variable declaration as a statement: the DeclStmt around the VarDecl
VarDecl(name, typ, init) ==
    Node("DeclStmt", "", DDPVoidType, <<>>, <<Node("VarDecl", name, typ, <<>>, <<init>>)>>)

\* Die Funktion f mit den Parametern c, r, l und i vom Typ Boolean, Text
\* Referenz, Zahlen Liste und Zahl, gibt nichts zurück, macht: body
FuncDecl(body) ==
    Node("FuncDecl", "f", DDPVoidType,
         << [name |-> "c", Type |-> DDPBoolType, IsReference |-> FALSE],
            [name |-> "r", Type |-> DDPStringType, IsReference |-> TRUE],
            [name |-> "l", Type |-> DDPType("ZAHL", TRUE), IsReference |-> FALSE],
            [name |-> "i", Type |-> DDPIntType, IsReference |-> FALSE] >>,
         <<Node("BlockStmt", "", DDPVoidType, <<>>, body)>>)

\* the statements without a body: Der Text t ist r. (also with i, of the
\* wrong type, and with q, which is not declared), Die Zahl x ist l an der
\* Stelle i., Verlasse die Funktion., and a statement the parser gave up on
Atoms ==
    {VarDecl("t", DDPStringType, Ident(v)) : v \in {"r", "i", "q"}}
    \cup {VarDecl("x", DDPIntType, Node("Indexing", "", DDPVoidType, <<>>, <<Ident("l"), Ident("i")>>)),
          Node("ReturnStmt", "f", DDPVoidType, <<>>, <<>>),
          Node("BadStmt", "", DDPVoidType, <<>>, <<>>)}

\* Wenn c, dann: body
IfStmt(body) ==
    Node("IfStmt", "", DDPVoidType, <<>>, <<Ident("c"), Node("BlockStmt", "", DDPVoidType, <<>>, body)>>)

RECURSIVE Bodies(_)
\* the statement lists of exactly n statements, the nested ones counted
Bodies(n) ==
    IF n = 0 THEN {<<>>}
    ELSE UNION {{<<s>> \o rest : s \in (IF m = 1 THEN Atoms ELSE {}) \cup {IfStmt(b) : b \in Bodies(m - 1)},
                                 rest \in Bodies(n - m)} : m \in 1..n}

RECURSIVE HasBad(_)
HasBad(nodes) ==
    \E k \in 1..Len(nodes) : nodes[k].node \in {"BadDecl", "BadStmt", "BadExpr"} \/ HasBad(nodes[k].kids)

\* the bodies the parser hands on
Programs == UNION {Bodies(n) : n \in 0..MaxStmts}

\* ast.SymbolTable, as the chain from the global table (first) to the
\* current one (last): ast.NewSymbolTable, InsertVar, LookupVar, LookupFunc
NewSymbolTable == [vars |-> {}, funcs |-> {}]

LookupVar(tables, name) == \E k \in 1..Len(tables) : \E d \in tables[k].vars : d.name = name

LookupFunc(tables, name) == \E k \in 1..Len(tables) : \E d \in tables[k].funcs : d.name = name

\* the type a name is declared with in the innermost table that has it
TypeOf(tables, name, kind) ==
    LET k == CHOOSE j \in 1..Len(tables) :
                 /\ \E d \in tables[j][kind] : d.name = name
                 /\ \A i \in (j+1)..Len(tables) : \A d \in tables[i][kind] : d.name # name
    IN (CHOOSE d \in tables[k][kind] : d.name = name).typ

RECURSIVE resolve(_, _), resolveAll(_, _)
\* Resolver.Visit...: one node, by its type
resolve(r, n) ==
    LET top == Len(r.CurrentTable)
        decl == [name |-> n.name, typ |-> n.typ]
    IN CASE n.node \in {"BadDecl", "BadExpr", "BadStmt"} -> [r EXCEPT !.Errored = TRUE]
         [] n.node = "VarDecl" ->
                LET r1 == resolve(r, n.kids[1])
                    existed == \E d \in r1.CurrentTable[top].vars : d.name = n.name
                IN [r1 EXCEPT !.CurrentTable[top].vars = @ \cup (IF existed THEN {} ELSE {decl}),
                              !.Errored = @ \/ existed]
         [] n.node = "FuncDecl" ->
                LET existed == \E d \in r.CurrentTable[top].funcs : d.name = n.name
                    r1 == [r EXCEPT !.CurrentTable[top].funcs = @ \cup (IF existed THEN {} ELSE {decl}),
                                    !.Errored = @ \/ existed]
                    Symbols == [NewSymbolTable EXCEPT
                                   !.vars = {[name |-> n.params[i].name, typ |-> n.params[i].Type] :
                                                 i \in 1..Len(n.params)}]
                    \* VisitBlockStmt with the Symbols the body has been given
                    r2 == resolveAll([r1 EXCEPT !.CurrentTable = Append(@, Symbols)], n.kids[1].kids)
                IN [r2 EXCEPT !.CurrentTable = SubSeq(@, 1, top)]
         [] n.node = "Ident" ->
                [r EXCEPT !.Errored = @ \/ ~LookupVar(r.CurrentTable, n.name)]
         [] n.node = "BlockStmt" ->
                LET r1 == resolveAll([r EXCEPT !.CurrentTable = Append(@, NewSymbolTable)], n.kids)
                IN [r1 EXCEPT !.CurrentTable = SubSeq(@, 1, top)]
         [] n.node = "ReturnStmt" ->
                resolveAll([r EXCEPT !.Errored = @ \/ ~LookupFunc(r.CurrentTable, n.name)], n.kids)
         \* Indexing: Lhs, Index; DeclStmt: Decl; IfStmt: Condition, Then, Else
         [] OTHER -> resolveAll(r, n.kids)

resolveAll(r, nodes) ==
    IF nodes = <<>> THEN r ELSE resolveAll(resolve(r, nodes[1]), Tail(nodes))

\* a stage that assigned its Errored to the flag
markFaulty_assigned(Faulty, Errored) == Errored

\* if Errored { Ast.Faulty = true }
markFaulty(Faulty, Errored) == Faulty \/ Errored

\* the Symbols the resolver has left at a block: the variables declared by
\* the statements of the block itself
Symbols(stmts) ==
    [NewSymbolTable EXCEPT
        !.vars = {[name |-> stmts[k].kids[1].name, typ |-> stmts[k].kids[1].typ] :
                     k \in {j \in 1..Len(stmts) : stmts[j].node = "DeclStmt"}}]

RECURSIVE typecheck(_, _), typecheckAll(_, _)
\* Typechecker.Visit...: one node, by its type
typecheck(t, n) ==
    LET top == Len(t.CurrentTable)
        err(tc, wrong) == [tc EXCEPT !.Errored = @ \/ wrong]
        \* VisitBlockStmt, with the Symbols of the block
        block(tc, symbols, stmts) ==
            [typecheckAll([tc EXCEPT !.CurrentTable = Append(@, symbols)], stmts)
                EXCEPT !.CurrentTable = SubSeq(@, 1, top)]
    IN CASE n.node \in {"BadDecl", "BadExpr", "BadStmt"} ->
                [t EXCEPT !.Errored = TRUE, !.latestReturnedType = DDPVoidType]
         [] n.node = "VarDecl" ->
                LET t1 == typecheck(t, n.kids[1])
                IN err(t1, t1.latestReturnedType # n.typ)
         [] n.node = "FuncDecl" ->
                LET params == {[name |-> n.params[i].name, typ |-> n.params[i].Type] : i \in 1..Len(n.params)}
                IN block(t, [Symbols(n.kids[1].kids) EXCEPT !.vars = @ \cup params], n.kids[1].kids)
         [] n.node = "Ident" ->
                [t EXCEPT !.latestReturnedType =
                    IF LookupVar(t.CurrentTable, n.name) THEN TypeOf(t.CurrentTable, n.name, "vars")
                    ELSE DDPVoidType]
         [] n.node = "Indexing" ->
                LET t1 == typecheck(t, n.kids[2])
                    t2 == err(t1, t1.latestReturnedType # DDPIntType)
                    t3 == typecheck(t2, n.kids[1])
                    lhs == t3.latestReturnedType
                    t4 == err(t3, ~lhs.IsList /\ lhs.PrimitiveType # "TEXT")
                IN [t4 EXCEPT !.latestReturnedType =
                       IF lhs.IsList THEN DDPType(lhs.PrimitiveType, FALSE) ELSE DDPType("BUCHSTABE", FALSE)]
         [] n.node = "BlockStmt" -> block(t, Symbols(n.kids), n.kids)
         [] n.node = "IfStmt" ->
                LET t1 == typecheck(t, n.kids[1])
                IN typecheckAll(err(t1, t1.latestReturnedType # DDPBoolType), Tail(n.kids))
         [] n.node = "ReturnStmt" ->
                LET t1 == typecheckAll(t, n.kids)
                    returnType == IF n.kids = <<>> THEN DDPVoidType ELSE t1.latestReturnedType
                IN err(t1, /\ LookupFunc(t.CurrentTable, n.name)
                           /\ TypeOf(t.CurrentTable, n.name, "funcs") # returnType)
         \* DeclStmt: Decl
         [] OTHER -> typecheckAll(t, n.kids)

typecheckAll(t, nodes) ==
    IF nodes = <<>> THEN t ELSE typecheckAll(typecheck(t, nodes[1]), Tail(nodes))

\* the global table the resolver has filled: the functions declared in the file
GlobalSymbols(Ast) ==
    [NewSymbolTable EXCEPT
        !.funcs = {[name |-> Ast.Statements[k].name, typ |-> Ast.Statements[k].typ] :
                      k \in {j \in 1..Len(Ast.Statements) : Ast.Statements[j].node = "FuncDecl"}}]

\* resolver.ResolveAst: the first stage
ResolveAst ==
    /\ stage = "parsed"
    /\ LET resolver == resolveAll([CurrentTable |-> <<NewSymbolTable>>, Errored |-> FALSE], ast.Statements)
       IN /\ ast' = [ast EXCEPT !.Faulty = markFaulty(@, resolver.Errored)]
          /\ diag' = [diag EXCEPT !.resolver = resolver.Errored]
    /\ stage' = "resolved"
    /\ UNCHANGED <<mod, run, poolVars, textVars, scanVars, exprVars, lexVars, libVars>>

\* typechecker.TypecheckAst: the second stage
TypecheckAst ==
    /\ stage = "resolved"
    /\ LET typechecker == typecheckAll([CurrentTable |-> <<GlobalSymbols(ast)>>, Errored |-> FALSE,
                                        latestReturnedType |-> DDPVoidType], ast.Statements)
       IN /\ ast' = [ast EXCEPT !.Faulty = markFaulty(@, typechecker.Errored)]
          /\ diag' = [diag EXCEPT !.typechecker = typechecker.Errored]
    /\ stage' = "checked"
    /\ UNCHANGED <<mod, run, poolVars, textVars, scanVars, exprVars, lexVars, libVars>>

(***************************************************************************)
(*                          THE IR EMITTER                                 *)
(***************************************************************************)
\* the IR types of the DDP types; a pointer, whatever it points to, is "ptr"
toIRType(ddpType) ==
    IF ddpType.IsList
    THEN CASE ddpType.PrimitiveType = "ZAHL" -> "ddpintlistptr"
           [] ddpType.PrimitiveType = "KOMMAZAHL" -> "ddpfloatlistptr"
           [] ddpType.PrimitiveType = "BOOLEAN" -> "ddpboollistptr"
           [] ddpType.PrimitiveType = "BUCHSTABE" -> "ddpcharlistptr"
           [] ddpType.PrimitiveType = "TEXT" -> "ddpstringlistptr"
           [] ddpType.PrimitiveType = "NICHTS" -> "void"
    ELSE CASE ddpType.PrimitiveType = "ZAHL" -> "ddpint"
           [] ddpType.PrimitiveType = "KOMMAZAHL" -> "ddpfloat"
           [] ddpType.PrimitiveType = "BOOLEAN" -> "ddpbool"
           [] ddpType.PrimitiveType = "BUCHSTABE" -> "ddpchar"
           [] ddpType.PrimitiveType = "TEXT" -> "ddpstrptr"
           [] ddpType.PrimitiveType = "NICHTS" -> "void"

isDynamic(typ) == typ \in {"ddpstrptr", "ddpintlistptr", "ddpstringlistptr"}

getElementType(typ) == IF typ = "ddpintlistptr" THEN "ddpint" ELSE "ddpstrptr"

\* the values of llir: a constant, the result of the instruction %v, the
\* v-th parameter of the function, a global definition
Value(k, v, typ) == [k |-> k, v |-> v, typ |-> typ]

\* Func.NewBlock: a block of the current function, without a terminator.
\* nterm counts how often the Term of the block has been set
NewBlock(c) ==
    [c EXCEPT !.blocks = Append(@, [fn |-> c.cf, Insts |-> <<>>, nterm |-> 0,
                                    Term |-> [op |-> "none", args |-> <<>>, succ |-> <<>>]])]

\* Block.NewAlloca, NewLoad, NewStore, NewCall, NewSub, NewICmp, NewAnd,
\* NewGetElementPtr: the instruction is appended to the Insts of block b
NewInst(c, b, op, fn, typ, args) ==
    [c EXCEPT !.nreg = @ + 1,
              !.blocks[b].Insts = Append(@, [op |-> op, fn |-> fn, dst |-> c.nreg + 1, typ |-> typ, args |-> args])]

\* the value of the instruction appended last
Last(c, typ) == Value("reg", c.nreg, typ)

\* Block.NewBr, NewCondBr, NewRet, NewUnreachable: the Term of block b is
\* set, whatever it was
NewTerm(c, b, op, args, succ) ==
    [c EXCEPT !.blocks[b].Term = [op |-> op, args |-> args, succ |-> succ],
              !.blocks[b].nterm = @ + 1]

\* the scope stack, from the global scope (first) to c.scp (last); a scope
\* holds its variables in the order of their declaration, and its dynamics:
\* the temporaries it has to release when a return statement leaves it
newScope(scp) == Append(scp, [variables |-> <<>>, dynamics |-> <<>>])

enclosing(scp) == SubSeq(scp, 1, Len(scp) - 1)

\* scope.addDynamic: the value is handed back as it came
addDynamic(c, val) == [c EXCEPT !.scp[Len(c.scp)].dynamics = Append(@, val)]

addVar(c, name, val, typ, isRef) ==
    [c EXCEPT !.scp[Len(c.scp)].variables = Append(@, [name |-> name, val |-> val, typ |-> typ, isRef |-> isRef])]

lookupVar(scp, name) ==
    LET has(k) == \E j \in 1..Len(scp[k].variables) : scp[k].variables[j].name = name
        k == CHOOSE j \in 1..Len(scp) : has(j) /\ \A i \in (j+1)..Len(scp) : ~has(i)
        vs == scp[k].variables
    IN vs[CHOOSE j \in 1..Len(vs) : vs[j].name = name /\ \A i \in (j+1)..Len(vs) : vs[i].name # name]

freeDynamic(c, value_ptr) ==
    CASE value_ptr.typ = "ddpstrptr" -> NewInst(c, c.cbb, "call", "_ddp_free_string", "void", <<value_ptr>>)
      [] value_ptr.typ = "ddpintlistptr" -> NewInst(c, c.cbb, "call", "_ddp_free_ddpintlist", "void", <<value_ptr>>)
      [] value_ptr.typ = "ddpstringlistptr" -> NewInst(c, c.cbb, "call", "_ddp_free_ddpstringlist", "void", <<value_ptr>>)
      [] OTHER -> [c EXCEPT !.panic = TRUE]

\* the copy is the value of the instruction appended last
deepCopyDynamic(c, value_ptr) ==
    CASE value_ptr.typ = "ddpstrptr" ->
            NewInst(c, c.cbb, "call", "_ddp_deep_copy_string", value_ptr.typ, <<value_ptr>>)
      [] value_ptr.typ = "ddpintlistptr" ->
            NewInst(c, c.cbb, "call", "_ddp_deep_copy_ddpintlist", value_ptr.typ, <<value_ptr>>)
      [] value_ptr.typ = "ddpstringlistptr" ->
            NewInst(c, c.cbb, "call", "_ddp_deep_copy_ddpstringlist", value_ptr.typ, <<value_ptr>>)
      [] OTHER -> [c EXCEPT !.panic = TRUE]

RECURSIVE exitScope_references(_, _)
\* an exitScope that releases the reference parameters as well
exitScope_references(c, variables) ==
    IF variables = <<>> THEN c
    ELSE LET v == Head(variables)
             load == NewInst(c, c.cbb, "load", "", v.typ, <<v.val>>)
         IN exitScope_references(IF isDynamic(v.typ) THEN freeDynamic(load, Last(load, v.typ)) ELSE c,
                                 Tail(variables))

RECURSIVE exitScope(_, _)
\* the releases of the variables of a scope, emitted into the current
\* block; the caller sets c.scp to the enclosing scope
exitScope(c, variables) ==
    IF variables = <<>> THEN c
    ELSE LET v == Head(variables)
             load == NewInst(c, c.cbb, "load", "", v.typ, <<v.val>>)
         IN exitScope(IF isDynamic(v.typ) /\ ~v.isRef THEN freeDynamic(load, Last(load, v.typ)) ELSE c,
                      Tail(variables))

RECURSIVE freeDynamics(_, _)
\* the inner loop of exitNestedScopes, over the dynamics of a scope
freeDynamics(c, dynamics) ==
    IF dynamics = <<>> THEN c ELSE freeDynamics(freeDynamic(c, Head(dynamics)), Tail(dynamics))

RECURSIVE exitNestedScopes(_, _)
\* the loop stands at the k-th scope, and starts at c.scp
exitNestedScopes(c, k) ==
    IF k # c.cfscp
    THEN exitNestedScopes(exitScope(freeDynamics(c, c.scp[k].dynamics), c.scp[k].variables), k - 1)
    ELSE exitScope(c, c.scp[c.cfscp].variables)

RECURSIVE visitNode(_, _), visitAll(_, _)

\* the statements of a visitor run one after the other: the compiler as the
\* steps so far have left it is handed to the steps that follow
Then(c, Rest(_)) == Rest(c)

VisitVarDecl(c, d) ==
    LET Typ == toIRType(d.typ)
        global == enclosing(c.scp) = <<>>
    IN Then(IF global THEN [c EXCEPT !.nglobal = @ + 1]
            ELSE NewInst(c, CHOOSE b \in 1..Len(c.blocks) :
                                c.blocks[b].fn = c.cf /\ \A a \in 1..(b-1) : c.blocks[a].fn # c.cf,
                         "alloca", "", "ptr", <<>>), LAMBDA c1 :
       LET varLocation == IF global THEN Value("global", c1.nglobal, "ptr") ELSE Last(c1, "ptr")
       IN Then(visitNode(addVar(c1, d.name, varLocation, Typ, FALSE), d.kids[1]), LAMBDA c2 :
          NewInst(c2, c2.cbb, "store", "", "void", <<c2.latestReturn, varLocation>>)))

\* ast.IsExternFunc: a function that is defined in a C file has no body
IsExternFunc(d) == d.kids = <<>>

\* c.functions holds the names of the functions that have a body in the
\* module, c.decls the declaration of every function inserted
VisitFuncDecl(c, d) ==
    LET RECURSIVE declare(_, _)
        \* the loop over the parameters, standing at the i-th
        declare(cc, i) ==
            IF i > Len(d.params) THEN cc
            ELSE LET irType == toIRType(d.params[i].Type)
                     param == Value("param", i, IF d.params[i].IsReference THEN "ptr" ELSE irType)
                 IN declare(IF d.params[i].IsReference
                            THEN addVar(cc, d.params[i].name, param, irType, TRUE)
                            ELSE Then(NewInst(cc, cc.cbb, "alloca", "", "ptr", <<>>), LAMBDA alloca :
                                 NewInst(addVar(alloca, d.params[i].name, Last(alloca, "ptr"), irType, FALSE),
                                         cc.cbb, "store", "", "void", <<param, Last(alloca, "ptr")>>)),
                            i + 1)
        leave(cc, toplevelReturn) ==
            [(IF toplevelReturn THEN cc ELSE exitScope(cc, cc.scp[Len(cc.scp)].variables))
                EXCEPT !.scp = enclosing(@)]
        fun == c.cf
        block == c.cbb
        \* the body, up to the first ReturnStmt among its own statements
        stmts == d.kids[1].kids
        returns == {k \in 1..Len(stmts) : stmts[k].node = "ReturnStmt"}
        toplevelReturn == returns # {}
        last == IF toplevelReturn THEN CHOOSE k \in returns : \A j \in returns : k <= j ELSE Len(stmts)
    IN IF IsExternFunc(d) THEN [c EXCEPT !.decls = @ \cup {d}]
       ELSE
       Then(NewBlock([c EXCEPT !.functions = @ \cup {d.name}, !.decls = @ \cup {d}, !.cf = d.name]), LAMBDA c1 :
       Then(declare([c1 EXCEPT !.cbb = Len(c1.blocks), !.scp = newScope(@), !.cfscp = Len(c.scp) + 1], 1), LAMBDA c2 :
       Then(leave(visitAll([c2 EXCEPT !.scp = newScope(@)], SubSeq(stmts, 1, last)), toplevelReturn), LAMBDA c3 :
       Then(IF c3.blocks[c3.cbb].Term.op = "none" THEN NewTerm(c3, c3.cbb, "ret", <<>>, <<>>) ELSE c3, LAMBDA c4 :
       [leave(c4, toplevelReturn) EXCEPT !.cf = fun, !.cbb = block, !.cfscp = 0]))))

VisitIdent(c, e) ==
    LET Var == lookupVar(c.scp, e.name)
    IN Then(NewInst(c, c.cbb, "load", "", Var.typ, <<Var.val>>), LAMBDA load :
       IF isDynamic(Var.typ)
       THEN Then(deepCopyDynamic(load, Last(load, Var.typ)), LAMBDA copy :
            [copy EXCEPT !.latestReturn = Last(copy, Var.typ)])
       ELSE [load EXCEPT !.latestReturn = Last(load, Var.typ)])

\* a getElementPointer that takes the source index for the 0 based one
getElementPointer_unshifted(c, lhs, rhs) ==
    LET thenBlock == Len(c.blocks) + 1
        errorBlock == Len(c.blocks) + 2
    IN Then(NewInst(NewBlock(NewBlock(c)), c.cbb, "getelementptr", "", "ptr",
                    <<lhs, Value("const", 0, "i32"), Value("const", 1, "i32")>>), LAMBDA lenptr :
       Then(NewInst(lenptr, c.cbb, "load", "", "ddpint", <<Last(lenptr, "ptr")>>), LAMBDA len :
       Then(NewInst(len, c.cbb, "sub", "", "ddpint", <<rhs, Value("const", 0, "ddpint")>>), LAMBDA index :
       Then(NewInst(index, c.cbb, "icmp slt", "", "i1", <<Last(index, "ddpint"), Last(len, "ddpint")>>), LAMBDA slt :
       Then(NewInst(slt, c.cbb, "icmp sge", "", "i1", <<Last(index, "ddpint"), Value("const", 0, "ddpint")>>), LAMBDA sge :
       Then(NewInst(sge, c.cbb, "and", "", "i1", <<Last(slt, "i1"), Last(sge, "i1")>>), LAMBDA cond :
       Then(NewTerm(cond, c.cbb, "condbr", <<Last(cond, "i1")>>, <<thenBlock, errorBlock>>), LAMBDA c1 :
       Then(NewTerm(NewInst(c1, errorBlock, "call", "out_of_bounds", "void", <<rhs, Last(len, "ddpint")>>),
                    errorBlock, "unreachable", <<>>, <<>>), LAMBDA c2 :
       Then(NewInst([c2 EXCEPT !.cbb = thenBlock], thenBlock, "getelementptr", "", "ptr",
                    <<lhs, Value("const", 0, "i32"), Value("const", 0, "i32")>>), LAMBDA arrptr :
       Then(NewInst(arrptr, thenBlock, "load", "", "ptr", <<Last(arrptr, "ptr")>>), LAMBDA arr :
       NewInst(arr, thenBlock, "getelementptr", "", "ptr", <<Last(arr, "ptr"), Last(index, "ddpint")>>)))))))))))

\* the pointer to the element is the value of the instruction appended last
getElementPointer(c, lhs, rhs) ==
    LET thenBlock == Len(c.blocks) + 1
        errorBlock == Len(c.blocks) + 2
    IN Then(NewInst(NewBlock(NewBlock(c)), c.cbb, "getelementptr", "", "ptr",
                    <<lhs, Value("const", 0, "i32"), Value("const", 1, "i32")>>), LAMBDA lenptr :
       Then(NewInst(lenptr, c.cbb, "load", "", "ddpint", <<Last(lenptr, "ptr")>>), LAMBDA len :
       Then(NewInst(len, c.cbb, "sub", "", "ddpint", <<rhs, Value("const", 1, "ddpint")>>), LAMBDA index :
       Then(NewInst(index, c.cbb, "icmp slt", "", "i1", <<Last(index, "ddpint"), Last(len, "ddpint")>>), LAMBDA slt :
       Then(NewInst(slt, c.cbb, "icmp sge", "", "i1", <<Last(index, "ddpint"), Value("const", 0, "ddpint")>>), LAMBDA sge :
       Then(NewInst(sge, c.cbb, "and", "", "i1", <<Last(slt, "i1"), Last(sge, "i1")>>), LAMBDA cond :
       Then(NewTerm(cond, c.cbb, "condbr", <<Last(cond, "i1")>>, <<thenBlock, errorBlock>>), LAMBDA c1 :
       Then(NewTerm(NewInst(c1, errorBlock, "call", "out_of_bounds", "void", <<rhs, Last(len, "ddpint")>>),
                    errorBlock, "unreachable", <<>>, <<>>), LAMBDA c2 :
       Then(NewInst([c2 EXCEPT !.cbb = thenBlock], thenBlock, "getelementptr", "", "ptr",
                    <<lhs, Value("const", 0, "i32"), Value("const", 0, "i32")>>), LAMBDA arrptr :
       Then(NewInst(arrptr, thenBlock, "load", "", "ptr", <<Last(arrptr, "ptr")>>), LAMBDA arr :
       NewInst(arr, thenBlock, "getelementptr", "", "ptr", <<Last(arr, "ptr"), Last(index, "ddpint")>>)))))))))))

VisitIndexing(c, e) ==
    Then(visitNode(c, e.kids[1]), LAMBDA c1 :
    Then(visitNode(c1, e.kids[2]), LAMBDA c2 :
    LET lhs == c1.latestReturn
        rhs == c2.latestReturn
    IN Then(CASE lhs.typ = "ddpstrptr" ->
                    Then(NewInst(c2, c2.cbb, "call", "_ddp_string_index", "ddpchar", <<lhs, rhs>>), LAMBDA index :
                    [index EXCEPT !.latestReturn = Last(index, "ddpchar")])
              [] lhs.typ \in {"ddpintlistptr", "ddpstringlistptr"} ->
                    Then(getElementPointer(c2, lhs, rhs), LAMBDA elementPtr :
                    Then(NewInst(elementPtr, elementPtr.cbb, "load", "", getElementType(lhs.typ),
                                 <<Last(elementPtr, "ptr")>>), LAMBDA load :
                    IF lhs.typ = "ddpstringlistptr"
                    THEN Then(deepCopyDynamic(load, Last(load, "ddpstrptr")), LAMBDA copy :
                         [copy EXCEPT !.latestReturn = Last(copy, "ddpstrptr")])
                    ELSE [load EXCEPT !.latestReturn = Last(load, getElementType(lhs.typ))]))
              [] OTHER -> [c2 EXCEPT !.panic = TRUE], LAMBDA c3 :
       IF isDynamic(lhs.typ) THEN freeDynamic(c3, lhs) ELSE c3)))

VisitBlockStmt(c, s) ==
    Then(visitAll([c EXCEPT !.scp = newScope(@)], s.kids), LAMBDA c1 :
    [exitScope(c1, c1.scp[Len(c1.scp)].variables) EXCEPT !.scp = enclosing(@)])

VisitIfStmt(c, s) ==
    Then(visitNode(c, s.kids[1]), LAMBDA c1 :
    LET cond == c1.latestReturn
        thenBlock == Len(c1.blocks) + 1
        elseBlock == Len(c1.blocks) + 2
        leaveBlock == Len(c1.blocks) + 3
        hasElse == Len(s.kids) = 3
        \* one branch: its block, its scope, its statement, the jump to the leaveBlock
        branch(cc, block, stmt) ==
            Then(visitNode([cc EXCEPT !.cbb = block, !.scp = newScope(@)], stmt), LAMBDA b1 :
            Then(IF b1.blocks[b1.cbb].Term.op = "none"
                 THEN NewTerm(b1, b1.cbb, "br", <<>>, <<leaveBlock>>) ELSE b1, LAMBDA b2 :
            [exitScope(b2, b2.scp[Len(b2.scp)].variables) EXCEPT !.scp = enclosing(@)]))
    IN Then(NewTerm(NewBlock(NewBlock(NewBlock(c1))), c1.cbb, "condbr", <<cond>>,
                    <<thenBlock, IF hasElse THEN elseBlock ELSE leaveBlock>>), LAMBDA c2 :
       Then(branch(c2, thenBlock, s.kids[2]), LAMBDA c3 :
       [(IF hasElse THEN branch(c3, elseBlock, s.kids[3])
         ELSE NewTerm(c3, elseBlock, "unreachable", <<>>, <<>>)) EXCEPT !.cbb = leaveBlock])))

VisitReturnStmt(c, s) ==
    IF s.kids = <<>>
    THEN Then(exitNestedScopes(c, Len(c.scp)), LAMBDA c1 :
         NewTerm(c1, c1.cbb, "ret", <<>>, <<>>))
    ELSE Then(visitNode(c, s.kids[1]), LAMBDA c1 :
         Then(exitNestedScopes(c1, Len(c1.scp)), LAMBDA c2 :
         NewTerm(c2, c2.cbb, "ret", <<c1.latestReturn>>, <<>>)))

\* c.cf.Blocks[0]: the entry block of the current function
Blocks0(c) ==
    CHOOSE b \in 1..Len(c.blocks) : c.blocks[b].fn = c.cf /\ \A a \in 1..(b-1) : c.blocks[a].fn # c.cf

VisitExprStmt(c, s) ==
    Then(visitNode(c, s.kids[1]), LAMBDA expr :
    IF isDynamic(expr.latestReturn.typ) THEN freeDynamic(expr, expr.latestReturn) ELSE expr)

RECURSIVE evaluateAssignable(_, _)
\* the compiler, and the value evaluateAssignable returns
evaluateAssignable(c, ass) ==
    CASE ass.node = "Ident" ->
            LET Var == lookupVar(c.scp, ass.name)
            IN Then(NewInst(c, c.cbb, "load", "", Var.typ, <<Var.val>>), LAMBDA load :
               [c |-> load, val |-> Last(load, Var.typ)])
      [] ass.node = "Indexing" ->
            Then(evaluateAssignable(c, ass.kids[1]), LAMBDA lhs :
            Then(visitNode(lhs.c, ass.kids[2]), LAMBDA index :
            CASE lhs.val.typ = "ddpstrptr" -> [c |-> index, val |-> lhs.val]
              [] lhs.val.typ = "ddpstringlistptr" ->
                    Then(getElementPointer(index, lhs.val, index.latestReturn), LAMBDA elementPtr :
                    Then(NewInst(elementPtr, elementPtr.cbb, "load", "", "ddpstrptr",
                                 <<Last(elementPtr, "ptr")>>), LAMBDA load :
                    [c |-> load, val |-> Last(load, "ddpstrptr")]))
              [] OTHER -> [c |-> [index EXCEPT !.panic = TRUE], val |-> Value("none", 0, "void")]))
      [] OTHER -> [c |-> [c EXCEPT !.panic = TRUE], val |-> Value("none", 0, "void")]

\* a VisitAssignStmt that releases the old value before it evaluates the
\* right-hand side
VisitAssignStmt_releaseFirst(c, s) ==
    LET Var == lookupVar(c.scp, s.kids[1].name)
    IN IF s.kids[1].node = "Ident" /\ isDynamic(Var.typ)
       THEN Then(NewInst(c, c.cbb, "load", "", Var.typ, <<Var.val>>), LAMBDA load :
            Then(freeDynamic(load, Last(load, Var.typ)), LAMBDA free :
            Then(visitNode(free, s.kids[2]), LAMBDA val :
            NewInst(val, val.cbb, "store", "", "void", <<val.latestReturn, Var.val>>))))
       ELSE [c EXCEPT !.panic = TRUE]

\* s.Var and s.Rhs are the children of the statement, in this order
VisitAssignStmt(c, s) ==
    Then(visitNode(c, s.kids[2]), LAMBDA c1 :
    LET val == c1.latestReturn
        assign == s.kids[1]
    IN CASE assign.node = "Ident" ->
            LET Var == lookupVar(c1.scp, assign.name)
            IN Then(IF isDynamic(Var.typ)
                    THEN Then(NewInst(c1, c1.cbb, "load", "", Var.typ, <<Var.val>>), LAMBDA load :
                         freeDynamic(load, Last(load, Var.typ)))
                    ELSE c1, LAMBDA c2 :
               NewInst(c2, c2.cbb, "store", "", "void", <<val, Var.val>>))
         [] assign.node = "Indexing" ->
            Then(evaluateAssignable(c1, assign.kids[1]), LAMBDA lhs :
            Then(visitNode(lhs.c, assign.kids[2]), LAMBDA index :
            CASE lhs.val.typ = "ddpstrptr" ->
                    NewInst(index, index.cbb, "call", "_ddp_replace_char_in_string", "void",
                            <<lhs.val, val, index.latestReturn>>)
              [] lhs.val.typ \in {"ddpintlistptr", "ddpstringlistptr"} ->
                    Then(getElementPointer(index, lhs.val, index.latestReturn), LAMBDA elementPtr :
                    Then(IF lhs.val.typ = "ddpstringlistptr"
                         THEN Then(NewInst(elementPtr, elementPtr.cbb, "load", "", "ddpstrptr",
                                           <<Last(elementPtr, "ptr")>>), LAMBDA load :
                              freeDynamic(load, Last(load, "ddpstrptr")))
                         ELSE elementPtr, LAMBDA c2 :
                    NewInst(c2, c2.cbb, "store", "", "void", <<val, Last(elementPtr, "ptr")>>)))
              [] OTHER -> [index EXCEPT !.panic = TRUE]))
         [] OTHER -> c1)

\* Compiler.VisitFuncCall; e.Args maps the names of the parameters to the
\* arguments: the names are the params of the node, the arguments its
\* children
Compiler_VisitFuncCall(c, e) ==
    LET fun == CHOOSE d \in c.decls : d.name = e.name
        Args(i) == e.kids[CHOOSE k \in 1..Len(e.params) : e.params[k] = fun.params[i].name]
        nil == Value("none", 0, "void")
        RECURSIVE pass(_, _, _), release(_, _, _)
        \* the first loop over the parameters, standing at the i-th
        pass(cc, i, args) ==
            IF i > Len(fun.params) THEN [c |-> cc, args |-> args]
            ELSE IF fun.params[i].IsReference
            THEN CASE Args(i).node = "Ident" ->
                        pass(cc, i + 1, Append(args, lookupVar(cc.scp, Args(i).name).val))
                   [] Args(i).node = "Indexing" ->
                        Then(evaluateAssignable(cc, Args(i).kids[1]), LAMBDA lhs :
                        Then(visitNode(lhs.c, Args(i).kids[2]), LAMBDA index :
                        IF lhs.val.typ \in {"ddpintlistptr", "ddpstringlistptr"}
                        THEN Then(getElementPointer(index, lhs.val, index.latestReturn), LAMBDA elementPtr :
                             pass(elementPtr, i + 1, Append(args, Last(elementPtr, "ptr"))))
                        ELSE [c |-> [index EXCEPT !.panic = TRUE], args |-> args]))
                   [] OTHER -> pass(cc, i + 1, Append(args, nil))
            ELSE Then(visitNode(cc, Args(i)), LAMBDA val :
                 pass(val, i + 1, Append(args, val.latestReturn)))
        \* the second loop, of a call of an extern function
        release(cc, i, args) ==
            IF i > Len(fun.params) THEN cc
            ELSE release(IF ~fun.params[i].IsReference /\ isDynamic(toIRType(fun.params[i].Type))
                         THEN freeDynamic(cc, args[i]) ELSE cc, i + 1, args)
    IN Then(pass(c, 1, <<>>), LAMBDA p :
       IF p.c.panic THEN p.c
       ELSE Then(NewInst(p.c, p.c.cbb, "call", e.name, toIRType(fun.typ), p.args), LAMBDA call :
            Then([call EXCEPT !.latestReturn = Last(call, toIRType(fun.typ))], LAMBDA c1 :
            IF IsExternFunc(fun) THEN release(c1, 1, p.args) ELSE c1)))

\* the loop variable is the name and the type of the statement, s.In and
\* s.Body are its children
VisitForRangeStmt(c, s) ==
    Then(visitNode([c EXCEPT !.scp = newScope(@)], s.kids[1]), LAMBDA c1 :
    LET in == c1.latestReturn
        loopStart == Len(c1.blocks) + 1
        condBlock == Len(c1.blocks) + 2
        bodyBlock == Len(c1.blocks) + 3
        incrementBlock == Len(c1.blocks) + 4
        leaveBlock == Len(c1.blocks) + 5
        irType == toIRType(s.typ)
        zero == Value("const", 0, "ddpint")
        one == Value("const", 1, "ddpint")
    IN Then(IF in.typ = "ddpstrptr"
            THEN NewInst(addDynamic(c1, in), c1.cbb, "call", "_ddp_string_length", "ddpint", <<in>>)
            ELSE Then(NewInst(addDynamic(c1, in), c1.cbb, "getelementptr", "", "ptr",
                              <<in, Value("const", 0, "i32"), Value("const", 1, "i32")>>), LAMBDA lenptr :
                 NewInst(lenptr, c1.cbb, "load", "", "ddpint", <<Last(lenptr, "ptr")>>)), LAMBDA c2 :
       LET len == Last(c2, "ddpint")
       IN Then(NewInst(NewBlock(NewBlock(NewBlock(NewBlock(NewBlock(c2))))), c2.cbb, "icmp eq", "", "i1",
                       <<len, zero>>), LAMBDA eq :
          Then(NewTerm(eq, c2.cbb, "condbr", <<Last(eq, "i1")>>, <<leaveBlock, loopStart>>), LAMBDA c3 :
          Then(NewInst([c3 EXCEPT !.cbb = loopStart], Blocks0(c3), "alloca", "", "ptr", <<>>), LAMBDA index :
          Then(NewInst(index, loopStart, "store", "", "void", <<one, Last(index, "ptr")>>), LAMBDA c4 :
          Then(NewInst(c4, Blocks0(c4), "alloca", "", "ptr", <<>>), LAMBDA var :
          Then(NewTerm(addVar(var, s.name, Last(var, "ptr"), irType, FALSE),
                       loopStart, "br", <<>>, <<condBlock>>), LAMBDA c5 :
          Then(NewInst([c5 EXCEPT !.cbb = condBlock], condBlock, "load", "", "ddpint",
                       <<Last(index, "ptr")>>), LAMBDA c6 :
          Then(NewInst(c6, condBlock, "icmp sle", "", "i1", <<Last(c6, "ddpint"), len>>), LAMBDA sle :
          Then(NewTerm(sle, condBlock, "condbr", <<Last(sle, "i1")>>, <<bodyBlock, leaveBlock>>), LAMBDA c7 :
          Then(IF in.typ = "ddpstrptr"
               THEN Then(NewInst([c7 EXCEPT !.cbb = bodyBlock], bodyBlock, "load", "", "ddpint",
                                 <<Last(index, "ptr")>>), LAMBDA load :
                    Then(NewInst(load, bodyBlock, "call", "_ddp_string_index", "ddpchar",
                                 <<in, Last(load, "ddpint")>>), LAMBDA char :
                    [char EXCEPT !.latestReturn = Last(char, "ddpchar")]))
               ELSE Then(NewInst([c7 EXCEPT !.cbb = bodyBlock], bodyBlock, "getelementptr", "", "ptr",
                                 <<in, Value("const", 0, "i32"), Value("const", 0, "i32")>>), LAMBDA arrptr :
                    Then(NewInst(arrptr, bodyBlock, "load", "", "ptr", <<Last(arrptr, "ptr")>>), LAMBDA arr :
                    Then(NewInst(arr, bodyBlock, "load", "", "ddpint", <<Last(index, "ptr")>>), LAMBDA load :
                    Then(NewInst(load, bodyBlock, "sub", "", "ddpint", <<Last(load, "ddpint"), one>>), LAMBDA ddpindex :
                    Then(NewInst(ddpindex, bodyBlock, "getelementptr", "", "ptr",
                                 <<Last(arr, "ptr"), Last(ddpindex, "ddpint")>>), LAMBDA elementPtr :
                    Then(NewInst(elementPtr, bodyBlock, "load", "", getElementType(in.typ),
                                 <<Last(elementPtr, "ptr")>>), LAMBDA element :
                    IF in.typ = "ddpstringlistptr"
                    THEN Then(deepCopyDynamic(element, Last(element, "ddpstrptr")), LAMBDA copy :
                         [copy EXCEPT !.latestReturn = Last(copy, "ddpstrptr")])
                    ELSE [element EXCEPT !.latestReturn = Last(element, getElementType(in.typ))])))))),
               LAMBDA loopVar :
          Then(NewInst(loopVar, bodyBlock, "store", "", "void",
                       <<loopVar.latestReturn, lookupVar(loopVar.scp, s.name).val>>), LAMBDA c8 :
          Then(visitNode(c8, s.kids[2]), LAMBDA body :
          Then(IF body.blocks[body.cbb].Term.op = "none"
               THEN NewTerm(body, body.cbb, "br", <<>>, <<incrementBlock>>) ELSE body, LAMBDA c9 :
          Then(NewInst([c9 EXCEPT !.cbb = incrementBlock], incrementBlock, "load", "", "ddpint",
                       <<Last(index, "ptr")>>), LAMBDA c10 :
          Then(NewInst(c10, incrementBlock, "add", "", "ddpint", <<Last(c10, "ddpint"), one>>), LAMBDA add :
          Then(NewInst(add, incrementBlock, "store", "", "void",
                       <<Last(add, "ddpint"), Last(index, "ptr")>>), LAMBDA c11 :
          Then(NewTerm(c11, incrementBlock, "br", <<>>, <<condBlock>>), LAMBDA c12 :
          Then([exitScope([c12 EXCEPT !.cbb = leaveBlock], c12.scp[Len(c12.scp)].variables)
                   EXCEPT !.scp = enclosing(@)], LAMBDA c13 :
          freeDynamic(c13, in)))))))))))))))))))))

\* VisitIntLit and VisitBoolLit: e.Value is the one parameter of the node;
\* newInt(e.Value) and constant.NewBool(e.Value)
\* a literal whose value does not matter comes without one, and is 0
LitValue(e) == IF e.params = <<>> THEN 0 ELSE e.params[1]

VisitIntLit(c, e) == [c EXCEPT !.latestReturn = Value("const", LitValue(e), "ddpint")]

VisitBoolLit(c, e) == [c EXCEPT !.latestReturn = Value("const", LitValue(e), "ddpbool")]

\* VisitFloatLit and VisitCharLit: constant.NewFloat(ddpfloat, e.Value) and
\* newIntT(ddpchar, int64(e.Value))
VisitFloatLit(c, e) == [c EXCEPT !.latestReturn = Value("const", LitValue(e), "ddpfloat")]

VisitCharLit(c, e) == [c EXCEPT !.latestReturn = Value("const", LitValue(e), "ddpchar")]

\* the ddpstring is made by the runtime from the global definition of the
\* characters
VisitStringLit(c, e) ==
    Then(NewInst([c EXCEPT !.nglobal = @ + 1], c.cbb, "bitcast", "", "ptr",
                 <<Value("global", c.nglobal + 1, "ptr")>>), LAMBDA cast :
    Then(NewInst(cast, cast.cbb, "call", "_ddp_string_from_constant", "ddpstrptr", <<Last(cast, "ptr")>>), LAMBDA call :
    [call EXCEPT !.latestReturn = Last(call, "ddpstrptr")]))

\* the IR type of the list of an element type
listPtr(typ) ==
    CASE typ = "ddpint" -> "ddpintlistptr"
      [] typ = "ddpfloat" -> "ddpfloatlistptr"
      [] typ = "ddpbool" -> "ddpboollistptr"
      [] typ = "ddpchar" -> "ddpcharlistptr"
      [] typ = "ddpstrptr" -> "ddpstringlistptr"
      [] OTHER -> "void"

\* the big switches of VisitBinaryExpr on the operator and on lhs.Type()
\* and rhs.Type(): what is emitted for the operator after both operands
\* are evaluated. err is the call of err(...) of a default case; lfp and
\* rfp say which operand goes through NewSIToFP first; op is the
\* instruction (a "call" is a call of fn, "index" the bounds check and the
\* load of the element of a list, "none" nothing at all) and typ the type
\* of its value; for LOGARITHMUS fn is the function both operands are
\* handed to before the NewFDiv
BinaryLowering(op, l, r) ==
    LET err == [err |-> TRUE, lfp |-> FALSE, rfp |-> FALSE, op |-> "err", fn |-> "", typ |-> "void"]
        conv(lfp, rfp, o, f, t) == [err |-> FALSE, lfp |-> lfp, rfp |-> rfp, op |-> o, fn |-> f, typ |-> t]
        inst(o, f, t) == conv(FALSE, FALSE, o, f, t)
        \* the switch of PLUS, MINUS, MAL and of the four comparisons
        numeric(o, fo, it, ft) ==
            CASE l = "ddpint" /\ r = "ddpint" -> inst(o, "", it)
              [] l = "ddpint" /\ r = "ddpfloat" -> conv(TRUE, FALSE, fo, "", ft)
              [] l = "ddpfloat" /\ r = "ddpint" -> conv(FALSE, TRUE, fo, "", ft)
              [] l = "ddpfloat" /\ r = "ddpfloat" -> inst(fo, "", ft)
              [] OTHER -> err
        \* the switch of HOCH and of LOGARITHMUS
        power(o, f) ==
            CASE l = "ddpint" /\ r = "ddpint" -> conv(TRUE, TRUE, o, f, "ddpfloat")
              [] l = "ddpint" /\ r = "ddpfloat" -> conv(TRUE, FALSE, o, f, "ddpfloat")
              [] l = "ddpfloat" /\ r = "ddpint" -> conv(FALSE, TRUE, o, f, "ddpfloat")
              [] OTHER -> err
        equal(o) ==
            CASE l \in {"ddpint", "ddpbool", "ddpchar"} -> inst(o, "", "ddpbool")
              [] l = "ddpfloat" -> inst(IF o = "icmp eq" THEN "fcmp oeq" ELSE "fcmp one", "", "ddpbool")
              [] l \in {"ddpstrptr", "ddpintlistptr", "ddpfloatlistptr", "ddpboollistptr",
                        "ddpcharlistptr", "ddpstringlistptr"} ->
                    inst(IF o = "icmp eq" THEN "call" ELSE "xor", "_equal", "ddpbool")
              [] OTHER -> err
    IN CASE op = "VERKETTET" ->
              CASE l \in {"ddpint", "ddpfloat", "ddpbool"} /\ r \in {l, listPtr(l)} -> inst("call", "_verkettet", listPtr(l))
                [] l \in {"ddpintlistptr", "ddpfloatlistptr", "ddpboollistptr", "ddpcharlistptr", "ddpstringlistptr"}
                   /\ (r = l \/ listPtr(r) = l) -> inst("call", "_verkettet", l)
                [] l = "ddpchar" /\ r \in {"ddpchar", "ddpcharlistptr"} -> inst("call", "_verkettet", "ddpcharlistptr")
                [] l = "ddpchar" /\ r = "ddpstrptr" -> inst("call", "_ddp_char_string_verkettet", "ddpstrptr")
                [] l = "ddpstrptr" /\ r = "ddpstrptr" -> inst("call", "_ddp_string_string_verkettet", "ddpstrptr")
                [] l = "ddpstrptr" /\ r = "ddpchar" -> inst("call", "_ddp_string_char_verkettet", "ddpstrptr")
                [] l = "ddpstrptr" /\ r = "ddpstringlistptr" -> inst("call", "_verkettet", "ddpstringlistptr")
                [] OTHER -> err
         [] op \in {"PLUS", "ADDIERE", "ERHOEHE"} -> numeric("add", "fadd", "ddpint", "ddpfloat")
         [] op \in {"MINUS", "SUBTRAHIERE", "VERRINGERE"} -> numeric("sub", "fsub", "ddpint", "ddpfloat")
         [] op \in {"MAL", "MULTIPLIZIERE", "VERVIELFACHE"} -> numeric("mul", "fmul", "ddpint", "ddpfloat")
         [] op \in {"DURCH", "DIVIDIERE", "TEILE"} ->
              CASE l = "ddpint" /\ r = "ddpint" -> conv(TRUE, TRUE, "fdiv", "", "ddpfloat")
                [] OTHER -> numeric("fdiv", "fdiv", "ddpfloat", "ddpfloat")
         [] op = "STELLE" ->
              CASE l = "ddpstrptr" -> inst("call", "_ddp_string_index", "ddpchar")
                [] l = "ddpintlistptr" -> inst("index", "", "ddpint")
                [] l = "ddpfloatlistptr" -> inst("index", "", "ddpfloat")
                [] l = "ddpboollistptr" -> inst("index", "", "ddpbool")
                [] l = "ddpcharlistptr" -> inst("index", "", "ddpchar")
                [] l = "ddpstringlistptr" -> inst("index", "", "ddpstrptr")
                [] OTHER -> err
         [] op = "HOCH" -> power("call", "pow")
         [] op = "LOGARITHMUS" -> power("fdiv", "log10")
         [] op = "LOGISCHUND" -> inst("and", "", l)
         [] op = "LOGISCHODER" -> inst("or", "", l)
         [] op = "KONTRA" -> inst("xor", "", l)
         [] op = "MODULO" -> inst("srem", "", l)
         [] op = "LINKS" -> inst("shl", "", l)
         [] op = "RECHTS" -> inst("lshr", "", l)
         [] op = "GLEICH" -> equal("icmp eq")
         [] op = "UNGLEICH" -> equal("icmp ne")
         [] op = "KLEINER" -> numeric("icmp slt", "fcmp olt", "ddpbool", "ddpbool")
         [] op = "KLEINERODER" -> numeric("icmp sle", "fcmp ole", "ddpbool", "ddpbool")
         [] op = "GROESSER" -> numeric("icmp sgt", "fcmp ogt", "ddpbool", "ddpbool")
         [] op = "GROESSERODER" -> numeric("icmp sge", "fcmp oge", "ddpbool", "ddpbool")
         [] OTHER -> inst("none", "", r)

\* a lowering of UND that takes the value of the left operand from the
\* block of the right one
VisitUnd_swapped(c, e) ==
    Then(visitNode(c, e.kids[1]), LAMBDA c1 :
    LET lhs == c1.latestReturn
        startBlock == c1.cbb
        trueBlock == Len(c1.blocks) + 1
        leaveBlock == Len(c1.blocks) + 2
    IN Then(NewTerm(NewBlock(NewBlock(c1)), startBlock, "condbr", <<lhs>>, <<trueBlock, leaveBlock>>), LAMBDA c2 :
       Then(visitNode([c2 EXCEPT !.cbb = trueBlock], e.kids[2]), LAMBDA c3 :
       Then(NewTerm(c3, c3.cbb, "br", <<>>, <<leaveBlock>>), LAMBDA c4 :
       Then(NewInst([c4 EXCEPT !.cbb = leaveBlock], leaveBlock, "phi", "", "ddpbool",
                    <<lhs, Value("block", c3.cbb, "label"),
                      c3.latestReturn, Value("block", startBlock, "label")>>), LAMBDA phi :
       [phi EXCEPT !.latestReturn = Last(phi, "ddpbool")])))))

\* case token.UND of VisitBinaryExpr: the right operand is evaluated in
\* the trueBlock, and the phi of the leaveBlock takes rhs from the block
\* the evaluation of the right operand has ended in, lhs from the startBlock
VisitUnd(c, e) ==
    Then(visitNode(c, e.kids[1]), LAMBDA c1 :
    LET lhs == c1.latestReturn
        startBlock == c1.cbb
        trueBlock == Len(c1.blocks) + 1
        leaveBlock == Len(c1.blocks) + 2
    IN Then(NewTerm(NewBlock(NewBlock(c1)), startBlock, "condbr", <<lhs>>, <<trueBlock, leaveBlock>>), LAMBDA c2 :
       Then(visitNode([c2 EXCEPT !.cbb = trueBlock], e.kids[2]), LAMBDA c3 :
       Then(NewTerm(c3, c3.cbb, "br", <<>>, <<leaveBlock>>), LAMBDA c4 :
       Then(NewInst([c4 EXCEPT !.cbb = leaveBlock], leaveBlock, "phi", "", "ddpbool",
                    <<c3.latestReturn, Value("block", c3.cbb, "label"),
                      lhs, Value("block", startBlock, "label")>>), LAMBDA phi :
       [phi EXCEPT !.latestReturn = Last(phi, "ddpbool")])))))

\* case token.ODER of VisitBinaryExpr
VisitOder(c, e) ==
    Then(visitNode(c, e.kids[1]), LAMBDA c1 :
    LET lhs == c1.latestReturn
        startBlock == c1.cbb
        falseBlock == Len(c1.blocks) + 1
        leaveBlock == Len(c1.blocks) + 2
    IN Then(NewTerm(NewBlock(NewBlock(c1)), startBlock, "condbr", <<lhs>>, <<leaveBlock, falseBlock>>), LAMBDA c2 :
       Then(visitNode([c2 EXCEPT !.cbb = falseBlock], e.kids[2]), LAMBDA c3 :
       Then(NewTerm(c3, c3.cbb, "br", <<>>, <<leaveBlock>>), LAMBDA c4 :
       Then(NewInst([c4 EXCEPT !.cbb = leaveBlock], leaveBlock, "phi", "", "ddpbool",
                    <<lhs, Value("block", startBlock, "label"),
                      c3.latestReturn, Value("block", c3.cbb, "label")>>), LAMBDA phi :
       [phi EXCEPT !.latestReturn = Last(phi, "ddpbool")])))))

\* Compiler.VisitBinaryExpr; the operator is the name of the node
Compiler_VisitBinaryExpr(c, e) ==
    CASE e.name = "UND" -> VisitUnd(c, e)
      [] e.name = "ODER" -> VisitOder(c, e)
      [] OTHER ->
            Then(visitNode(c, e.kids[1]), LAMBDA c1 :
            Then(visitNode(c1, e.kids[2]), LAMBDA c2 :
            LET lhs == c1.latestReturn
                rhs == c2.latestReturn
                low == BinaryLowering(e.name, lhs.typ, rhs.typ)
                \* NewSIToFP of an operand, and the function of LOGARITHMUS on it
                operand(cc, val, fp) ==
                    Then(IF fp THEN NewInst(cc, cc.cbb, "sitofp", "", "ddpfloat", <<val>>) ELSE cc, LAMBDA f :
                    LET v == IF fp THEN Last(f, "ddpfloat") ELSE val
                    IN IF low.op = "fdiv" /\ low.fn # ""
                       THEN Then(NewInst(f, f.cbb, "call", low.fn, "ddpfloat", <<v>>), LAMBDA call :
                            [call EXCEPT !.latestReturn = Last(call, "ddpfloat")])
                       ELSE [f EXCEPT !.latestReturn = v])
            IN Then(CASE low.err -> [c2 EXCEPT !.panic = TRUE]
                      [] low.op = "none" -> c2
                      [] low.op = "index" ->
                            Then(getElementPointer(c2, lhs, rhs), LAMBDA elementPtr :
                            Then(NewInst(elementPtr, elementPtr.cbb, "load", "", low.typ,
                                         <<Last(elementPtr, "ptr")>>), LAMBDA load :
                            Then(IF lhs.typ = "ddpstringlistptr"
                                 THEN deepCopyDynamic(load, Last(load, low.typ)) ELSE load, LAMBDA element :
                            Then(NewBlock(element), LAMBDA c3 :
                            [NewTerm(c3, c3.cbb, "br", <<>>, <<Len(c3.blocks)>>)
                                EXCEPT !.cbb = Len(c3.blocks), !.latestReturn = Last(element, low.typ)]))))
                      \* UNGLEICH of texts and of lists: the call of the equal of the
                      \* runtime, and NewXor(equal, newInt(1))
                      [] low.op = "xor" /\ low.fn # "" ->
                            Then(NewInst(c2, c2.cbb, "call", low.fn, low.typ, <<lhs, rhs>>), LAMBDA equal :
                            Then(NewInst(equal, equal.cbb, "xor", "", low.typ,
                                         <<Last(equal, low.typ), Value("const", 1, "ddpint")>>), LAMBDA value :
                            [value EXCEPT !.latestReturn = Last(value, low.typ)]))
                      [] OTHER ->
                            Then(operand(c2, lhs, low.lfp), LAMBDA l :
                            Then(operand(l, rhs, low.rfp), LAMBDA r :
                            Then(NewInst(r, r.cbb, low.op, IF low.op = "fdiv" THEN "" ELSE low.fn, low.typ,
                                         <<l.latestReturn, r.latestReturn>>), LAMBDA value :
                            [value EXCEPT !.latestReturn = Last(value, low.typ)]))), LAMBDA c4 :
               Then(IF isDynamic(lhs.typ) THEN freeDynamic(c4, lhs) ELSE c4, LAMBDA c5 :
               IF isDynamic(rhs.typ) THEN freeDynamic(c5, rhs) ELSE c5))))

\* the switch of VisitCastExpr on e.Type and on lhs.Type(): the
\* instruction that converts the operand ("none": the operand itself) and
\* the type of the value
CastLowering(Type, l) ==
    LET err == [err |-> TRUE, op |-> "err", fn |-> "", typ |-> "void"]
        inst(o, f) == [err |-> FALSE, op |-> o, fn |-> f, typ |-> toIRType(Type)]
    IN IF Type.IsList THEN inst("store", "_from_constants")
       ELSE CASE Type.PrimitiveType = "ZAHL" ->
                   CASE l = "ddpint" -> inst("none", "")
                     [] l = "ddpfloat" -> inst("fptosi", "")
                     [] l = "ddpbool" -> inst("zext", "")
                     [] l = "ddpchar" -> inst("sext", "")
                     [] l = "ddpstrptr" -> inst("call", "_ddp_string_to_int")
                     [] OTHER -> err
              [] Type.PrimitiveType = "KOMMAZAHL" ->
                   CASE l = "ddpint" -> inst("sitofp", "")
                     [] l = "ddpfloat" -> inst("none", "")
                     [] l = "ddpstrptr" -> inst("call", "_ddp_string_to_float")
                     [] OTHER -> err
              [] Type.PrimitiveType = "BOOLEAN" ->
                   CASE l = "ddpint" -> inst("icmp ne", "")
                     [] l = "ddpbool" -> inst("none", "")
                     [] OTHER -> err
              [] Type.PrimitiveType = "BUCHSTABE" ->
                   CASE l = "ddpint" -> inst("trunc", "")
                     [] l = "ddpchar" -> inst("none", "")
                     [] OTHER -> err
              [] Type.PrimitiveType = "TEXT" ->
                   CASE l \in {"ddpint", "ddpfloat", "ddpbool", "ddpchar", "ddpintlistptr", "ddpfloatlistptr",
                               "ddpboollistptr", "ddpcharlistptr", "ddpstringlistptr"} -> inst("call", "_to_string")
                     [] l = "ddpstrptr" -> inst("call", "_ddp_deep_copy_string")
                     [] OTHER -> err
              [] OTHER -> err

\* a loop that is entered at its body, whatever its keyword
loopEntry_body(s, condBlock, body) == body

\* the block the code before the loop branches to: the condBlock of
\* solange, the body of mache
loopEntry(s, condBlock, body) == IF s.name = "SOLANGE" THEN condBlock ELSE body

\* Compiler.VisitCastExpr; e.Type is the type of the node, e.Lhs its child
Compiler_VisitCastExpr(c, e) ==
    Then(visitNode(c, e.kids[1]), LAMBDA c1 :
    LET lhs == c1.latestReturn
        low == CastLowering(e.typ, lhs.typ)
    IN IF e.typ.IsList
       THEN Then(NewInst(c1, c1.cbb, "call", low.fn, low.typ, <<Value("const", 1, "ddpint")>>), LAMBDA list :
            Then(NewInst(list, list.cbb, "getelementptr", "", "ptr",
                         <<Last(list, low.typ), Value("const", 0, "i32"), Value("const", 0, "i32")>>), LAMBDA arrptr :
            Then(NewInst(arrptr, arrptr.cbb, "load", "", "ptr", <<Last(arrptr, "ptr")>>), LAMBDA arr :
            Then(NewInst(arr, arr.cbb, "getelementptr", "", "ptr",
                         <<Last(arr, "ptr"), Value("const", 0, "ddpint")>>), LAMBDA elementPtr :
            Then(NewInst(elementPtr, elementPtr.cbb, "store", "", "void", <<lhs, Last(elementPtr, "ptr")>>), LAMBDA store :
            [store EXCEPT !.latestReturn = Last(list, low.typ)])))))
       ELSE Then(CASE low.err -> [c1 EXCEPT !.panic = TRUE]
                   [] low.op = "none" -> c1
                   [] low.op = "zext" ->
                         Then(NewInst(c1, c1.cbb, "icmp ne", "", "i1", <<lhs, Value("const", 0, "ddpint")>>), LAMBDA cond :
                         Then(NewInst(cond, cond.cbb, "zext", "", low.typ, <<Last(cond, "i1")>>), LAMBDA value :
                         [value EXCEPT !.latestReturn = Last(value, low.typ)]))
                   [] OTHER ->
                         Then(NewInst(c1, c1.cbb, low.op, low.fn, low.typ,
                                      IF low.op = "icmp ne" THEN <<lhs, Value("const", 0, "ddpint")>> ELSE <<lhs>>),
                              LAMBDA value :
                         [value EXCEPT !.latestReturn = Last(value, low.typ)]), LAMBDA c2 :
            IF isDynamic(lhs.typ) THEN freeDynamic(c2, lhs) ELSE c2))

\* s.Condition and s.Body are the children of the statement, s.While.Type
\* is its name
VisitWhileStmt(c, s) ==
    LET Condition == s.kids[1]
        Body == s.kids[2]
        zero == Value("const", 0, "ddpint")
        \* the end of the body: the jump to the condBlock, the releases of
        \* the bodyScope, and the condBlock as the current block
        close(cc, condBlock) ==
            Then(IF cc.blocks[cc.cbb].Term.op = "none"
                 THEN NewTerm(cc, cc.cbb, "br", <<>>, <<condBlock>>) ELSE cc, LAMBDA c1 :
            [exitScope(c1, c1.scp[Len(c1.scp)].variables) EXCEPT !.cbb = condBlock, !.scp = enclosing(@)])
    IN CASE s.name \in {"SOLANGE", "MACHE"} ->
              LET condBlock == Len(c.blocks) + 1
                  body == Len(c.blocks) + 2
              IN Then(NewTerm(NewBlock(NewBlock(c)), c.cbb, "br", <<>>,
                              <<loopEntry(s, condBlock, body)>>), LAMBDA c1 :
                 Then(visitNode([c1 EXCEPT !.cbb = body, !.scp = newScope(@)], Body), LAMBDA c2 :
                 Then(visitNode(close(c2, condBlock), Condition), LAMBDA cond :
                 LET leaveBlock == Len(cond.blocks) + 1
                 IN [NewTerm(NewBlock(cond), cond.cbb, "condbr", <<cond.latestReturn>>, <<body, leaveBlock>>)
                        EXCEPT !.cbb = leaveBlock])))
         [] s.name = "WIEDERHOLE" ->
              Then(NewInst(c, Blocks0(c), "alloca", "", "ptr", <<>>), LAMBDA alloca :
              LET counter == Last(alloca, "ptr")
              IN Then(visitNode(alloca, Condition), LAMBDA count :
                 Then(NewInst(count, count.cbb, "store", "", "void", <<count.latestReturn, counter>>), LAMBDA c1 :
                 LET condBlock == Len(c1.blocks) + 1
                     body == Len(c1.blocks) + 2
                 IN Then(NewTerm(NewBlock(NewBlock(c1)), c1.cbb, "br", <<>>, <<condBlock>>), LAMBDA c2 :
                    Then(NewInst([c2 EXCEPT !.cbb = body, !.scp = newScope(@)], body, "load", "", "ddpint",
                                 <<counter>>), LAMBDA load :
                    Then(NewInst(load, body, "sub", "", "ddpint",
                                 <<Last(load, "ddpint"), Value("const", 1, "ddpint")>>), LAMBDA sub :
                    Then(NewInst(sub, body, "store", "", "void", <<Last(sub, "ddpint"), counter>>), LAMBDA c3 :
                    Then(visitNode(c3, Body), LAMBDA c4 :
                    LET leaveBlock == Len(c4.blocks) + 1
                    IN Then(NewInst(close(NewBlock(c4), condBlock), condBlock, "load", "", "ddpint",
                                    <<counter>>), LAMBDA c5 :
                       Then(NewInst(c5, condBlock, "icmp ne", "", "i1", <<Last(c5, "ddpint"), zero>>), LAMBDA ne :
                       [NewTerm(ne, condBlock, "condbr", <<Last(ne, "i1")>>, <<body, leaveBlock>>)
                           EXCEPT !.cbb = leaveBlock]))))))))))
         [] OTHER -> c

\* s.Initializer, s.To, s.Body and, where the statement has one, s.StepSize
\* are the children of the statement
VisitForStmt(c, s) ==
    LET Initializer == s.kids[1]
        To == s.kids[2]
        Body == s.kids[3]
        \* one of the two blocks that compare the counter with s.To
        compare(cc, block, Var, pred, forBody, leaveBlock) ==
            Then(NewInst([cc EXCEPT !.cbb = block], block, "load", "", Var.typ, <<Var.val>>), LAMBDA load :
            Then(visitNode(load, To), LAMBDA to :
            Then(NewInst(to, to.cbb, pred, "", "i1", <<Last(load, Var.typ), to.latestReturn>>), LAMBDA cond :
            NewTerm(cond, cond.cbb, "condbr", <<Last(cond, "i1")>>, <<forBody, leaveBlock>>))))
    IN Then(visitNode([c EXCEPT !.scp = newScope(@)], Initializer), LAMBDA c1 :
       LET initValue == c1.latestReturn
           condBlock == Len(c1.blocks) + 1
           incrementBlock == Len(c1.blocks) + 2
           forBody == Len(c1.blocks) + 3
       IN Then(NewTerm(NewBlock(NewBlock(NewBlock(c1))), c1.cbb, "br", <<>>, <<condBlock>>), LAMBDA c2 :
          Then(visitNode([c2 EXCEPT !.cbb = forBody], Body), LAMBDA c3 :
          Then(IF c3.blocks[c3.cbb].Term.op = "none"
               THEN NewTerm(c3, c3.cbb, "br", <<>>, <<incrementBlock>>) ELSE c3, LAMBDA c4 :
          LET Var == lookupVar(c4.scp, Initializer.name)
          IN Then(NewInst(c4, incrementBlock, "load", "", Var.typ, <<Var.val>>), LAMBDA indexVar :
             Then(IF Len(s.kids) = 4 THEN visitNode([indexVar EXCEPT !.cbb = incrementBlock], s.kids[4])
                  ELSE indexVar, LAMBDA step :
             LET incrementer == IF Len(s.kids) = 4 THEN step.latestReturn ELSE Value("const", 1, "ddpint")
             IN Then(NewInst([step EXCEPT !.cbb = incrementBlock], incrementBlock, "add", "", "ddpint",
                             <<Last(indexVar, Var.typ), incrementer>>), LAMBDA add :
                Then(NewInst(add, incrementBlock, "store", "", "void", <<Last(add, "ddpint"), Var.val>>), LAMBDA c5 :
                Then(NewTerm(c5, incrementBlock, "br", <<>>, <<condBlock>>), LAMBDA c6 :
                LET initGreaterTo == Len(c6.blocks) + 1
                    initLessthenTo == Len(c6.blocks) + 2
                    leaveBlock == Len(c6.blocks) + 3
                IN Then(visitNode([NewBlock(NewBlock(NewBlock(c6))) EXCEPT !.cbb = condBlock], To), LAMBDA to :
                   Then(NewInst(to, to.cbb, "icmp sle", "", "i1", <<initValue, to.latestReturn>>), LAMBDA cond :
                   Then(NewTerm(cond, cond.cbb, "condbr", <<Last(cond, "i1")>>,
                                <<initLessthenTo, initGreaterTo>>), LAMBDA c7 :
                   Then(compare(c7, initLessthenTo, Var, "icmp sle", forBody, leaveBlock), LAMBDA c8 :
                   Then(compare(c8, initGreaterTo, Var, "icmp sge", forBody, leaveBlock), LAMBDA c9 :
                   [exitScope(c9, c9.scp[Len(c9.scp)].variables)
                       EXCEPT !.cbb = leaveBlock, !.scp = enclosing(@)]))))))))))))))

\* node.Accept(c); VisitDeclStmt hands on to the declaration, and the
\* visitors of the Bad nodes panic; after a panic nothing is visited
visitNode(c, node) ==
    IF c.panic THEN c
    ELSE
    CASE node.node = "VarDecl" -> VisitVarDecl(c, node)
      [] node.node = "FuncDecl" -> VisitFuncDecl(c, node)
      [] node.node = "Ident" -> VisitIdent(c, node)
      [] node.node = "Indexing" -> VisitIndexing(c, node)
      [] node.node = "DeclStmt" -> visitNode(c, node.kids[1])
      [] node.node = "BlockStmt" -> VisitBlockStmt(c, node)
      [] node.node = "IfStmt" -> VisitIfStmt(c, node)
      [] node.node = "ReturnStmt" -> VisitReturnStmt(c, node)
      [] node.node = "ExprStmt" -> VisitExprStmt(c, node)
      [] node.node = "AssignStmt" -> VisitAssignStmt(c, node)
      [] node.node = "FuncCall" -> Compiler_VisitFuncCall(c, node)
      [] node.node = "ForRangeStmt" -> VisitForRangeStmt(c, node)
      [] node.node = "IntLit" -> VisitIntLit(c, node)
      [] node.node = "BoolLit" -> VisitBoolLit(c, node)
      [] node.node = "FloatLit" -> VisitFloatLit(c, node)
      [] node.node = "CharLit" -> VisitCharLit(c, node)
      [] node.node = "StringLit" -> VisitStringLit(c, node)
      [] node.node = "CastExpr" -> Compiler_VisitCastExpr(c, node)
      [] node.node = "BinaryExpr" -> Compiler_VisitBinaryExpr(c, node)
      [] node.node = "WhileStmt" -> VisitWhileStmt(c, node)
      [] node.node = "ForStmt" -> VisitForStmt(c, node)
      [] OTHER -> [c EXCEPT !.panic = TRUE]

visitAll(c, nodes) ==
    IF nodes = <<>> THEN c ELSE visitAll(visitNode(c, nodes[1]), Tail(nodes))

\* what Compile returns for a tree it does not compile, and the module
\* before anything is emitted
NoModule == [err |-> FALSE, blocks |-> <<>>, nreg |-> 0, functions |-> {}]

\* compiler.New and Compiler.Compile: the third stage
Compile ==
    /\ stage = "checked"
    /\ mod' = IF ast.Faulty THEN [NoModule EXCEPT !.err = TRUE]
              ELSE LET compiler == [blocks |-> <<>>, nreg |-> 0, nglobal |-> 0, panic |-> FALSE,
                                    cbb |-> 0, cf |-> "", scp |-> newScope(<<>>), cfscp |-> 0,
                                    functions |-> {}, decls |-> {}, latestReturn |-> Value("none", 0, "void")]
                   IN Then(NewBlock([compiler EXCEPT !.functions = {"_ddp_ddpmain"}, !.cf = "_ddp_ddpmain"]), LAMBDA ddpmain :
                      Then(visitAll([ddpmain EXCEPT !.cbb = Len(ddpmain.blocks)], ast.Statements), LAMBDA c1 :
                      Then([exitScope(c1, c1.scp[Len(c1.scp)].variables) EXCEPT !.scp = enclosing(@)], LAMBDA c2 :
                      Then(NewTerm(c2, c2.cbb, "ret", <<Value("const", 0, "ddpint")>>, <<>>), LAMBDA c3 :
                      IF c3.panic THEN [NoModule EXCEPT !.err = TRUE]
                      ELSE [err |-> FALSE, blocks |-> c3.blocks, nreg |-> c3.nreg, functions |-> c3.functions]))))
    /\ stage' = "compiled"
    /\ UNCHANGED <<ast, diag, run, poolVars, textVars, scanVars, exprVars, lexVars, libVars>>

(***************************************************************************)
(*                    THE EXECUTION OF THE EMITTED IR                      *)
(***************************************************************************)
MaxLen == 2             \* elements of the list a call passes

\* ddpint, three bits wide here: the values, and the wrap of an overflow
Ints == -4..3

wrap(x) == ((x + 4) % 8) - 4

\* what a register or a stack slot holds: an integer (k = "int", the value
\* in a), nothing yet ("undef"), the address of a stack slot ("cell"), of a
\* heap object ("obj"), of field b of the struct of an object ("field"), of
\* the array of an object ("arr"), of element b of that array ("elem")
RunValue(k, a, b) == [k |-> k, a |-> a, b |-> b]

NoRun == [st |-> "idle", blk |-> 0, prev |-> 0, regs |-> <<>>, cells |-> <<>>, objs |-> <<>>, args |-> <<>>,
          ret |-> RunValue("undef", 0, 0), events |-> <<>>, log |-> <<>>]

\* a heap object: a text ("text"), a list of numbers ("intlist") or a list
\* of texts ("textlist", elems are the objects of its elements); owner is
\* who has to release it, frees counts its releases
Object(kind, len, elems, owner) ==
    [kind |-> kind, len |-> len, elems |-> elems, owner |-> owner, frees |-> 0]

\* a run: st is "run" while a function of the module is executed, blk the
\* block that is executed next and prev the block that branched to it, ret
\* the value of the ret that ended the function called last.
\* an entry of the log of a run: a release ("free", of object x), a deep
\* copy ("copy", of x into the new object y), a store ("store", of object x
\* into a slot that held object y; 0 stands for a value that is no
\* object), a call ("call", x is 1 for a function of the module and 0 for
\* an extern one), an object among its arguments ("arg", object x as the
\* y-th argument), the object in a slot among them ("ref"), a number or a
\* Boolean among them ("int", the value x as the y-th argument), and the
\* return of the call ("return")
Event(e, x, y) == [e |-> e, x |-> x, y |-> y]

ObjOf(v) == IF v.k = "obj" THEN v.a ELSE 0

\* an object and, of a list of texts, its elements
Members(r, o) == {o} \cup {r.objs[o].elems[k] : k \in 1..Len(r.objs[o].elems)}

Live(r, o) == \A p \in Members(r, o) : r.objs[p].frees = 0

\* _ddp_free_string, _ddp_free_ddpintlist, _ddp_free_ddpstringlist: a list
\* of texts is released with its elements
ddp_free(r, o) ==
    [r EXCEPT !.objs = [p \in 1..Len(r.objs) |->
                            IF p \in Members(r, o) THEN [r.objs[p] EXCEPT !.frees = @ + 1] ELSE r.objs[p]],
              !.st = IF Live(r, o) THEN @ ELSE "ub",
              !.log = Append(@, Event("free", o, 0))]

\* _ddp_deep_copy_string, _ddp_deep_copy_ddpintlist,
\* _ddp_deep_copy_ddpstringlist: the copy is the object Len(r.objs) + 1
ddp_deep_copy(r, o) ==
    LET n == Len(r.objs)
        src == r.objs[o]
    IN [r EXCEPT !.objs = @ \o <<Object(src.kind, src.len, [k \in 1..Len(src.elems) |-> n + 1 + k], "callee")>>
                            \o [k \in 1..Len(src.elems) |-> Object("text", r.objs[src.elems[k]].len, <<>>, "callee")],
                 !.log = Append(@, Event("copy", o, n + 1))]

\* the functions of the runtime that the emitted code calls
Runtime ==
    {"_ddp_free_string", "_ddp_free_ddpintlist", "_ddp_free_ddpstringlist", "_ddp_deep_copy_string",
     "_ddp_deep_copy_ddpintlist", "_ddp_deep_copy_ddpstringlist", "_ddp_string_index", "_ddp_string_length",
     "_ddp_replace_char_in_string", "out_of_bounds"}

\* the value of an operand in the state r of a run
ValueOf(r, v) ==
    CASE v.k = "const" -> RunValue("int", v.v, 0)
      [] v.k = "reg" -> r.regs[v.v]
      [] v.k = "param" -> r.args[v.v]
      [] OTHER -> RunValue("undef", 0, 0)

RECURSIVE exec(_, _), execAll(_, _), runFrom(_, _)

\* the call of a function that is not one of the runtime: a function of
\* the module runs until it returns; an extern function, defined in C,
\* leaves its arguments as they are
callFunc(r, inst) ==
    LET argv == [i \in 1..Len(inst.args) |-> ValueOf(r, inst.args[i])]
        user == inst.fn \in mod.functions
        \* the objects passed, and the objects in the slots passed
        passed(i) == IF argv[i].k = "cell" THEN Event("ref", ObjOf(r.cells[argv[i].a]), i)
                     ELSE IF argv[i].k = "int" THEN Event("int", argv[i].a, i)
                     ELSE Event("arg", ObjOf(argv[i]), i)
        objects == SelectSeq([i \in 1..Len(argv) |-> passed(i)], LAMBDA a : a.e = "int" \/ a.x # 0)
        called == [r EXCEPT !.log = @ \o <<Event("call", IF user THEN 1 ELSE 0, 0)>> \o objects]
        entry == CHOOSE b \in 1..Len(mod.blocks) :
                     mod.blocks[b].fn = inst.fn /\ \A a \in 1..(b-1) : mod.blocks[a].fn # inst.fn
        back == IF user THEN runFrom([called EXCEPT !.args = argv, !.blk = entry], Len(mod.blocks))
                ELSE [called EXCEPT !.st = "ret"]
    IN IF back.st = "ret"
       THEN [back EXCEPT !.st = "run", !.args = r.args, !.blk = r.blk, !.prev = r.prev,
                         !.regs[inst.dst] = IF user /\ inst.typ # "void" THEN back.ret ELSE @,
                         !.log = Append(@, Event("return", 0, 0))]
       ELSE back

\* one instruction, executed in the state r of a run. A release of an
\* object that is released already, a use of a released object, a use of a
\* value that was never assigned and an access outside of an array are
\* undefined behaviour: the run ends in "ub"
exec(r, inst) ==
    LET x == ValueOf(r, inst.args[1])
        y == ValueOf(r, inst.args[2])
        ub == [r EXCEPT !.st = "ub"]
        set(v) == [r EXCEPT !.regs[inst.dst] = v]
        int(n) == set(RunValue("int", n, 0))
        live(o) == r.objs[o].frees = 0
        inside(p) == live(p.a) /\ 0 <= p.b /\ p.b < r.objs[p.a].len
    IN CASE inst.op = "alloca" ->
                [r EXCEPT !.cells = Append(@, RunValue("undef", 0, 0)),
                          !.regs[inst.dst] = RunValue("cell", Len(r.cells) + 1, 0)]
         [] inst.op = "store" ->
                CASE y.k = "cell" ->
                        [r EXCEPT !.cells[y.a] = x,
                                  !.log = Append(@, Event("store", ObjOf(x), ObjOf(r.cells[y.a])))]
                  [] y.k = "elem" /\ x.k = "obj" ->
                        IF inside(y) /\ r.objs[y.a].kind = "textlist"
                        THEN [r EXCEPT !.objs[y.a].elems[y.b + 1] = x.a,
                                       !.log = Append(@, Event("store", x.a, r.objs[y.a].elems[y.b + 1]))]
                        ELSE ub
                  [] OTHER -> ub
         [] inst.op = "load" ->
                CASE x.k = "cell" -> set(r.cells[x.a])
                  [] x.k = "field" /\ live(x.a) ->
                        IF x.b = 1 THEN int(r.objs[x.a].len) ELSE set(RunValue("arr", x.a, 0))
                  [] x.k = "elem" ->
                        [(IF inside(x)
                          THEN IF r.objs[x.a].kind = "textlist"
                               THEN set(RunValue("obj", r.objs[x.a].elems[x.b + 1], 0))
                               ELSE int(0)
                          ELSE ub)
                            EXCEPT !.events = Append(@, [e |-> "access", x |-> x.a, y |-> x.b])]
                  [] OTHER -> ub
         [] inst.op = "getelementptr" ->
                CASE Len(inst.args) = 3 /\ x.k = "obj" -> set(RunValue("field", x.a, inst.args[3].v))
                  [] Len(inst.args) = 2 /\ x.k = "arr" /\ y.k = "int" -> set(RunValue("elem", x.a, y.a))
                  [] OTHER -> ub
         [] inst.op = "sub" -> int(wrap(x.a - y.a))
         [] inst.op = "add" -> int(wrap(x.a + y.a))
         [] inst.op = "icmp slt" -> int(IF x.a < y.a THEN 1 ELSE 0)
         [] inst.op = "icmp sle" -> int(IF x.a <= y.a THEN 1 ELSE 0)
         [] inst.op = "icmp sge" -> int(IF x.a >= y.a THEN 1 ELSE 0)
         [] inst.op = "icmp eq" -> int(IF x.a = y.a THEN 1 ELSE 0)
         [] inst.op = "icmp ne" -> int(IF x.a # y.a THEN 1 ELSE 0)
         [] inst.op = "icmp sgt" -> int(IF x.a > y.a THEN 1 ELSE 0)
         \* the incoming value of the block the run has come from
         [] inst.op = "phi" ->
                CASE r.prev = inst.args[2].v -> set(x)
                  [] r.prev = inst.args[4].v -> set(ValueOf(r, inst.args[3]))
                  [] OTHER -> ub
         [] inst.op = "and" -> int(IF x.a = 1 /\ y.a = 1 THEN 1 ELSE 0)
         [] inst.op = "call" ->
                CASE inst.fn \in {"_ddp_free_string", "_ddp_free_ddpintlist", "_ddp_free_ddpstringlist"}
                     /\ x.k = "obj" -> ddp_free(r, x.a)
                  [] inst.fn \in {"_ddp_deep_copy_string", "_ddp_deep_copy_ddpintlist",
                                  "_ddp_deep_copy_ddpstringlist"} /\ x.k = "obj" ->
                        IF Live(r, x.a)
                        THEN [ddp_deep_copy(r, x.a) EXCEPT !.regs[inst.dst] = RunValue("obj", Len(r.objs) + 1, 0)]
                        ELSE ub
                  \* the runtime prints the index and the length and ends the process
                  [] inst.fn = "out_of_bounds" ->
                        [r EXCEPT !.events = Append(@, [e |-> "out_of_bounds", x |-> x.a, y |-> y.a]),
                                  !.st = "trap"]
                  [] inst.fn \notin Runtime -> callFunc(r, inst)
                  [] OTHER -> ub
         [] OTHER -> ub

\* the instructions of a block, as long as the run goes on
execAll(r, insts) ==
    IF insts = <<>> \/ r.st # "run" THEN r ELSE execAll(exec(r, Head(insts)), Tail(insts))

\* one basic block: its instructions, and then its terminator
runBlock(run0) ==
    LET block == mod.blocks[run0.blk]
        r == execAll(run0, block.Insts)
        cond == IF block.Term.args[1].k = "reg" THEN r.regs[block.Term.args[1].v]
                ELSE RunValue("int", block.Term.args[1].v, 0)
    IN CASE r.st # "run" -> r
         [] block.Term.op = "br" -> [r EXCEPT !.blk = block.Term.succ[1], !.prev = run0.blk]
         [] block.Term.op = "condbr" ->
                [r EXCEPT !.blk = IF cond.a = 1 THEN block.Term.succ[1] ELSE block.Term.succ[2],
                          !.prev = run0.blk]
         [] block.Term.op = "ret" ->
                [r EXCEPT !.st = "ret",
                          !.ret = IF block.Term.args = <<>> THEN RunValue("undef", 0, 0)
                                  ELSE ValueOf(r, block.Term.args[1])]
         [] OTHER -> [r EXCEPT !.st = "ub"]

\* the blocks of a called function, until it returns
runFrom(r, fuel) ==
    IF r.st # "run" THEN r
    ELSE IF fuel = 0 THEN [r EXCEPT !.st = "ub"]
    ELSE runFrom(runBlock(r), fuel - 1)

RECURSIVE Arguments(_, _, _, _, _)
\* what a caller passes for the parameters: c for a Boolean, i for a Zahl,
\* a pointer to the slot of a text of its own for a reference, and for a
\* parameter of heap type passed by value an object that is the callee's
\* from now on: a text, or a list of n elements
Arguments(params, passed, c, n, i) ==
    IF params = <<>> THEN passed
    ELSE LET p == Head(params)
             o == Len(passed.objs)
             object(new) == [passed EXCEPT !.objs = @ \o new, !.args = Append(@, RunValue("obj", o + 1, 0))]
         IN Arguments(Tail(params),
                CASE p.IsReference ->
                        [passed EXCEPT !.objs = Append(@, Object("text", 0, <<>>, "caller")),
                                       !.cells = Append(@, RunValue("obj", o + 1, 0)),
                                       !.args = Append(@, RunValue("cell", Len(passed.cells) + 1, 0))]
                  [] ~p.IsReference /\ p.Type.IsList /\ p.Type.PrimitiveType = "TEXT" ->
                        object(<<Object("textlist", n, [k \in 1..n |-> o + 1 + k], "callee")>>
                               \o [k \in 1..n |-> Object("text", 0, <<>>, "callee")])
                  [] ~p.IsReference /\ p.Type.IsList /\ p.Type.PrimitiveType # "TEXT" ->
                        object(<<Object("intlist", n, <<>>, "callee")>>)
                  [] ~p.IsReference /\ ~p.Type.IsList /\ p.Type.PrimitiveType = "TEXT" ->
                        object(<<Object("text", 0, <<>>, "callee")>>)
                  [] OTHER ->
                        [passed EXCEPT !.args = Append(@, RunValue("int", IF p.Type = DDPBoolType THEN c ELSE i, 0))],
                c, n, i)

\* a call of a function of the module: of _ddp_ddpmain by the runtime, or
\* of a declared function by a caller
Start ==
    /\ stage = "compiled"
    /\ ~mod.err
    /\ run.st = "idle"
    /\ \E fn \in mod.functions, cv \in 0..1, n \in 0..MaxLen, iv \in Ints :
          LET entry == CHOOSE b \in 1..Len(mod.blocks) :
                           mod.blocks[b].fn = fn /\ \A a \in 1..(b-1) : mod.blocks[a].fn # fn
              main == fn = "_ddp_ddpmain"
              decl == ast.Statements[CHOOSE k \in 1..Len(ast.Statements) : ast.Statements[k].name = fn]
              passed == IF main THEN [objs |-> <<>>, cells |-> <<>>, args |-> <<>>]
                        ELSE Arguments(decl.params, [objs |-> <<>>, cells |-> <<>>, args |-> <<>>], cv, n, iv)
          IN run' = [st |-> "run", blk |-> entry, prev |-> 0, ret |-> RunValue("undef", 0, 0),
                     events |-> <<>>, log |-> <<>>,
                     regs |-> [k \in 1..mod.nreg |-> RunValue("undef", 0, 0)],
                     cells |-> passed.cells, objs |-> passed.objs, args |-> passed.args]
    /\ UNCHANGED <<ast, stage, diag, mod, poolVars, textVars, scanVars, exprVars, lexVars, libVars>>

\* one basic block of the function that was called
Step ==
    /\ run.st = "run"
    /\ run' = runBlock(run)
    /\ UNCHANGED <<ast, stage, diag, mod, poolVars, textVars, scanVars, exprVars, lexVars, libVars>>

EmitIdle ==
    /\ ast = [Statements |-> <<>>, Faulty |-> FALSE]
    /\ stage = "idle"
    /\ diag = [resolver |-> FALSE, typechecker |-> FALSE]
    /\ mod = NoModule
    /\ run = NoRun

(***************************************************************************)
(*                  THE TYPE CHECKER ON EXPRESSIONS                        *)
(***************************************************************************)
DDPFloatType == DDPType("KOMMAZAHL", FALSE)

DDPCharType == DDPType("BUCHSTABE", FALSE)

\* token.DDPType.IsNumeric
IsNumeric(typ) == ~typ.IsList /\ typ.PrimitiveType \in {"ZAHL", "KOMMAZAHL"}

\* the literals, one of each type
IntLit == Node("IntLit", "", DDPVoidType, <<>>, <<>>)

FloatLit == Node("FloatLit", "", DDPVoidType, <<>>, <<>>)

BoolLit == Node("BoolLit", "", DDPVoidType, <<>>, <<>>)

CharLit == Node("CharLit", "", DDPVoidType, <<>>, <<>>)

StringLit == Node("StringLit", "", DDPVoidType, <<>>, <<>>)

UnaryExpr(op, rhs) == Node("UnaryExpr", op, DDPVoidType, <<>>, <<rhs>>)

BinaryExpr(lhs, op, rhs) == Node("BinaryExpr", op, DDPVoidType, <<>>, <<lhs, rhs>>)

TernaryExpr(lhs, mid, rhs, op) == Node("TernaryExpr", op, DDPVoidType, <<>>, <<lhs, mid, rhs>>)

Indexing(lhs, index) == Node("Indexing", "", DDPVoidType, <<>>, <<lhs, index>>)

CastExpr(Type, lhs) == Node("CastExpr", "", Type, <<>>, <<lhs>>)

\* Args, a map from the names of the parameters to the expressions: the
\* names, and the expressions in the order the range over the map takes
FuncCall(name, names, args) == Node("FuncCall", name, DDPVoidType, names, args)

\* the table the expressions are checked in: Die Zahl i, der Text s, der
\* Buchstabe b, die Zahlen Liste l, die Buchstaben Liste bl, and Die
\* Funktion g mit den Parametern a, r und t vom Typ Zahl, Buchstaben
\* Referenz und Text Referenz, gibt eine Zahl zurück
ExprSymbols ==
    [vars |-> {[name |-> "i", typ |-> DDPIntType], [name |-> "s", typ |-> DDPStringType],
               [name |-> "b", typ |-> DDPCharType], [name |-> "l", typ |-> DDPType("ZAHL", TRUE)],
               [name |-> "bl", typ |-> DDPType("BUCHSTABE", TRUE)]},
     funcs |-> {[name |-> "g", typ |-> DDPIntType,
                 ParamNames |-> <<"a", "r", "t">>,
                 ParamTypes |-> << [Type |-> DDPIntType, IsReference |-> FALSE],
                                   [Type |-> DDPCharType, IsReference |-> TRUE],
                                   [Type |-> DDPStringType, IsReference |-> TRUE] >>]}]

\* Typechecker.err, where wrong holds
errIf(t, wrong) == [t EXCEPT !.Errored = @ \/ wrong]

\* an isOfType that finds every type in the list
isOfType_always(t, types) == TRUE

isOfType(t, types) == t \in types

\* an isOfTypeBin that is content with one of the two
isOfTypeBin_either(t1, t2, types) == isOfType(t1, types) \/ isOfType(t2, types)

\* t1 and t2 are both contained in types
isOfTypeBin(t1, t2, types) == isOfType(t1, types) /\ isOfType(t2, types)

\* a literal visitor that leaves latestReturnedType as it is
VisitLiteral_kept(t, typ) == t

\* VisitIntLit, VisitFloatLit, VisitBoolLit, VisitCharLit, VisitStringLit
VisitLiteral(t, typ) == [t EXCEPT !.latestReturnedType = typ]

\* rhs is the type Evaluate(expr.Rhs) returned
VisitUnaryExpr(t, op, rhs) ==
    CASE op \in {"BETRAG", "NEGATE"} -> errIf(t, ~IsNumeric(rhs))
      [] op = "NICHT" ->
            [errIf(t, ~isOfType(rhs, {DDPBoolType})) EXCEPT !.latestReturnedType = DDPBoolType]
      [] op = "NEGIERE" -> errIf(t, ~isOfType(rhs, {DDPBoolType, DDPIntType}))
      [] op = "LOGISCHNICHT" ->
            [errIf(t, ~isOfType(rhs, {DDPIntType})) EXCEPT !.latestReturnedType = DDPIntType]
      [] op = "LAENGE" ->
            [errIf(t, ~rhs.IsList /\ rhs.PrimitiveType # "TEXT") EXCEPT !.latestReturnedType = DDPIntType]
      [] op = "GROESSE" -> [t EXCEPT !.latestReturnedType = DDPIntType]
      [] OTHER -> errIf(t, TRUE)

\* lhs and rhs are the types Evaluate(expr.Lhs) and Evaluate(expr.Rhs) returned
VisitBinaryExpr(t, op, lhs, rhs) ==
    LET validate(valid) == errIf(t, ~isOfTypeBin(lhs, rhs, valid))
    IN CASE op = "VERKETTET" ->
              IF (~lhs.IsList /\ ~rhs.IsList) /\ (lhs = DDPStringType \/ rhs = DDPStringType)
              THEN [validate({DDPStringType, DDPCharType}) EXCEPT !.latestReturnedType = DDPStringType]
              ELSE [errIf(t, lhs.PrimitiveType # rhs.PrimitiveType)
                       EXCEPT !.latestReturnedType = DDPType(lhs.PrimitiveType, TRUE)]
         [] op \in {"PLUS", "ADDIERE", "ERHOEHE", "MINUS", "SUBTRAHIERE", "VERRINGERE",
                    "MAL", "MULTIPLIZIERE", "VERVIELFACHE"} ->
              [validate({DDPIntType, DDPFloatType}) EXCEPT !.latestReturnedType =
                  IF lhs = DDPIntType /\ rhs = DDPIntType THEN DDPIntType ELSE DDPFloatType]
         [] op = "STELLE" ->
              [errIf(errIf(t, ~lhs.IsList /\ lhs # DDPStringType), rhs # DDPIntType)
                  EXCEPT !.latestReturnedType =
                      IF lhs.IsList THEN DDPType(lhs.PrimitiveType, FALSE)
                      ELSE IF lhs = DDPStringType THEN DDPCharType ELSE @]
         [] op \in {"DURCH", "DIVIDIERE", "TEILE", "HOCH", "LOGARITHMUS"} ->
              [validate({DDPIntType, DDPFloatType}) EXCEPT !.latestReturnedType = DDPFloatType]
         [] op = "MODULO" -> [validate({DDPIntType}) EXCEPT !.latestReturnedType = DDPIntType]
         [] op \in {"UND", "ODER"} -> [validate({DDPBoolType}) EXCEPT !.latestReturnedType = DDPBoolType]
         [] op \in {"LINKS", "RECHTS"} -> [validate({DDPIntType}) EXCEPT !.latestReturnedType = DDPIntType]
         [] op \in {"GLEICH", "UNGLEICH"} ->
              [errIf(t, lhs # rhs) EXCEPT !.latestReturnedType = DDPBoolType]
         [] op \in {"GROESSERODER", "KLEINER", "KLEINERODER", "GROESSER"} ->
              [validate({DDPIntType, DDPFloatType}) EXCEPT !.latestReturnedType = DDPBoolType]
         [] op \in {"LOGISCHODER", "LOGISCHUND", "KONTRA"} ->
              [validate({DDPIntType}) EXCEPT !.latestReturnedType = DDPIntType]
         [] OTHER -> errIf(t, TRUE)

\* Type is expr.Type, lhs the type Evaluate(expr.Lhs) returned
VisitCastExpr(t, Type, lhs) ==
    LET IsPrimitive == ~lhs.IsList
        prim == Type.PrimitiveType
        wrong ==
            IF Type.IsList
            THEN CASE prim = "ZAHL" -> ~isOfType(lhs, {DDPIntType})
                   [] prim = "KOMMAZAHL" -> ~isOfType(lhs, {DDPFloatType})
                   [] prim = "BOOLEAN" -> ~isOfType(lhs, {DDPBoolType})
                   [] prim = "BUCHSTABE" -> ~isOfType(lhs, {DDPCharType, DDPStringType})
                   [] prim = "TEXT" -> ~isOfType(lhs, {DDPStringType})
                   [] OTHER -> TRUE
            ELSE CASE prim = "ZAHL" -> ~IsPrimitive
                   [] prim = "KOMMAZAHL" ->
                         ~IsPrimitive \/ ~isOfType(lhs, {DDPStringType, DDPIntType, DDPFloatType})
                   [] prim = "BOOLEAN" -> ~IsPrimitive \/ ~isOfType(lhs, {DDPIntType, DDPBoolType})
                   [] prim = "BUCHSTABE" -> ~IsPrimitive \/ ~isOfType(lhs, {DDPIntType, DDPCharType})
                   [] prim = "TEXT" -> FALSE
                   [] OTHER -> TRUE
    IN [errIf(t, wrong) EXCEPT !.latestReturnedType = Type]

\* lhs, mid and rhs are the types Evaluate returned for the three operands
VisitTernaryExpr(t, op, lhs, mid, rhs) ==
    CASE op = "VONBIS" ->
            [errIf(errIf(t, ~lhs.IsList /\ lhs # DDPStringType), ~isOfTypeBin(mid, rhs, {DDPIntType}))
                EXCEPT !.latestReturnedType =
                    IF lhs.IsList THEN DDPType(lhs.PrimitiveType, TRUE)
                    ELSE IF lhs = DDPStringType THEN DDPStringType ELSE @]
      [] OTHER -> errIf(t, TRUE)

RECURSIVE visit(_, _), VisitFuncCall(_, _, _)

\* a check of the argument that takes any expression for a reference
checkArgument_anyExpression(t, expr, argType, tokenType) ==
    errIf(t, tokenType # argType.Type)

\* the body of the loop of VisitFuncCall after Evaluate(expr): expr is
\* bound to a parameter of argType and has the type tokenType
checkArgument(t, expr, argType, tokenType) ==
    LET Assigneable == expr.node \in {"Ident", "Indexing"}
    IN errIf(IF argType.IsReference /\ ~Assigneable THEN errIf(t, TRUE)
             ELSE IF argType.IsReference /\ argType.Type = DDPCharType /\ expr.node = "Indexing"
                  THEN Then(visit(t, expr.kids[1]), LAMBDA t1 :
                       errIf(t1, t1.latestReturnedType.PrimitiveType = "TEXT"))
                  ELSE t,
             tokenType # argType.Type)

\* the loop over callExpr.Args, standing at the n-th argument
VisitFuncCall(t, callExpr, n) ==
    LET decl == CHOOSE d \in UNION {t.CurrentTable[j].funcs : j \in 1..Len(t.CurrentTable)} :
                    d.name = callExpr.name
    IN IF n > Len(callExpr.kids) THEN [t EXCEPT !.latestReturnedType = decl.typ]
       ELSE LET k == callExpr.params[n]
                argType == decl.ParamTypes[CHOOSE i \in 1..Len(decl.ParamNames) : decl.ParamNames[i] = k]
            IN Then(visit(t, callExpr.kids[n]), LAMBDA t1 :
               VisitFuncCall(checkArgument(t1, callExpr.kids[n], argType, t1.latestReturnedType),
                             callExpr, n + 1))

\* Typechecker.visit: node.Accept(t), for the expressions; an identifier,
\* an indexing and a BadExpr are visited as in a statement
visit(t, node) ==
    CASE node.node = "IntLit" -> VisitLiteral(t, DDPIntType)
      [] node.node = "FloatLit" -> VisitLiteral(t, DDPFloatType)
      [] node.node = "BoolLit" -> VisitLiteral(t, DDPBoolType)
      [] node.node = "CharLit" -> VisitLiteral(t, DDPCharType)
      [] node.node = "StringLit" -> VisitLiteral(t, DDPStringType)
      [] node.node = "UnaryExpr" ->
            Then(visit(t, node.kids[1]), LAMBDA t1 :
            VisitUnaryExpr(t1, node.name, t1.latestReturnedType))
      [] node.node = "BinaryExpr" ->
            Then(visit(t, node.kids[1]), LAMBDA t1 :
            Then(visit(t1, node.kids[2]), LAMBDA t2 :
            VisitBinaryExpr(t2, node.name, t1.latestReturnedType, t2.latestReturnedType)))
      [] node.node = "TernaryExpr" ->
            Then(visit(t, node.kids[1]), LAMBDA t1 :
            Then(visit(t1, node.kids[2]), LAMBDA t2 :
            Then(visit(t2, node.kids[3]), LAMBDA t3 :
            VisitTernaryExpr(t3, node.name, t1.latestReturnedType, t2.latestReturnedType,
                             t3.latestReturnedType))))
      [] node.node = "FuncCall" -> VisitFuncCall(t, node, 1)
      [] node.node = "CastExpr" ->
            Then(visit(t, node.kids[1]), LAMBDA t1 :
            VisitCastExpr(t1, node.typ, t1.latestReturnedType))
      [] OTHER -> typecheck(t, node)

\* the expressions of one type each: the literals, the list l, and q,
\* which is not declared and has the type of nothing
Operands == {IntLit, FloatLit, BoolLit, CharLit, StringLit, Ident("l"), Ident("q")}

UnaryOperators == {"BETRAG", "NEGATE", "NICHT", "NEGIERE", "LOGISCHNICHT", "LAENGE", "GROESSE", "?"}

BinaryOperators ==
    {"VERKETTET", "PLUS", "MINUS", "MAL", "STELLE", "DURCH", "HOCH", "LOGARITHMUS", "MODULO", "UND", "ODER",
     "LINKS", "RECHTS", "GLEICH", "UNGLEICH", "GROESSERODER", "KLEINER", "KLEINERODER", "GROESSER",
     "LOGISCHODER", "LOGISCHUND", "KONTRA", "?"}

\* the types an expression is converted to
CastTypes ==
    {DDPType(prim, list) : prim \in {"ZAHL", "KOMMAZAHL", "BOOLEAN", "BUCHSTABE", "TEXT", "NICHTS"},
                           list \in BOOLEAN}

\* the calls of g: an argument for each parameter, in either order of the map
Calls ==
    UNION {{FuncCall("g", <<"a", "r", "t">>, <<a, r, t>>), FuncCall("g", <<"t", "r", "a">>, <<t, r, a>>)} :
              a \in {IntLit, Ident("i"), StringLit},
              r \in {CharLit, Ident("b"), Ident("s"), Indexing(Ident("s"), Ident("i")),
                     Indexing(Ident("bl"), Ident("i")), UnaryExpr("NEGATE", Ident("b"))},
              t \in {StringLit, Ident("s"), Ident("b")}}

\* the expressions Evaluate is called with
Exprs ==
    Operands
    \cup {UnaryExpr(op, rhs) : op \in UnaryOperators, rhs \in Operands}
    \cup {BinaryExpr(lhs, op, rhs) : lhs \in Operands, op \in BinaryOperators, rhs \in Operands}
    \cup {TernaryExpr(lhs, IntLit, rhs, op) : lhs \in Operands, rhs \in Operands, op \in {"VONBIS", "?"}}
    \cup {CastExpr(Type, lhs) : Type \in CastTypes, lhs \in Operands}
    \cup Calls

\* nothing returned; before is the Typechecker as the call has found it
NoReturn ==
    [called |-> FALSE, expr |-> IntLit, typ |-> DDPVoidType,
     before |-> [Errored |-> FALSE, latestReturnedType |-> DDPVoidType]]

\* nothing compiled
NoLowered == [done |-> FALSE, panic |-> FALSE, typ |-> "void"]

\* typechecker.New, with the table of the expressions
NewTypechecker ==
    /\ checker' = [CurrentTable |-> <<ExprSymbols>>, Errored |-> FALSE, latestReturnedType |-> DDPVoidType]
    /\ returned' = NoReturn
    /\ lowered' = NoLowered
    /\ UNCHANGED <<poolVars, textVars, scanVars, emitVars, lexVars, libVars>>

\* Typechecker.TypecheckNode: a node is visited, and nothing is returned
TypecheckNode ==
    /\ checker.CurrentTable # <<>>
    /\ \E node \in Operands \cup {Node("BadExpr", "", DDPVoidType, <<>>, <<>>)} :
          checker' = visit(checker, node)
    /\ returned' = NoReturn
    /\ lowered' = NoLowered
    /\ UNCHANGED <<poolVars, textVars, scanVars, emitVars, lexVars, libVars>>

\* Typechecker.Evaluate: the expression is visited and latestReturnedType
\* is returned
Evaluate ==
    /\ checker.CurrentTable # <<>>
    /\ ~returned.called
    /\ \E expr \in Exprs :
          /\ checker' = visit(checker, expr)
          /\ returned' = [called |-> TRUE, expr |-> expr, typ |-> checker'.latestReturnedType,
                          before |-> [Errored |-> checker.Errored,
                                      latestReturnedType |-> checker.latestReturnedType]]
    /\ lowered' = NoLowered
    /\ UNCHANGED <<poolVars, textVars, scanVars, emitVars, lexVars, libVars>>

\* compiler.New, in the main function, with the variables of the table of
\* the expressions declared
ExprCompiler ==
    LET compiler == [blocks |-> <<>>, nreg |-> 0, nglobal |-> 0, panic |-> FALSE,
                     cbb |-> 0, cf |-> "", scp |-> newScope(<<>>), cfscp |-> 0,
                     functions |-> {}, decls |-> {}, latestReturn |-> Value("none", 0, "void")]
        ddpmain == NewBlock([compiler EXCEPT !.functions = {"_ddp_ddpmain"}, !.cf = "_ddp_ddpmain"])
        RECURSIVE declare(_, _)
        declare(c, names) ==
            IF names = <<>> THEN c
            ELSE LET typ == (CHOOSE v \in ExprSymbols.vars : v.name = Head(names)).typ
                 IN declare(addVar([c EXCEPT !.nglobal = @ + 1], Head(names),
                                   Value("global", c.nglobal + 1, "ptr"), toIRType(typ), FALSE),
                            Tail(names))
    IN declare([ddpmain EXCEPT !.cbb = 1], <<"i", "s", "b", "l", "bl">>)

\* the expression the resolver and the type checker have passed without a
\* diagnostic goes to the emitter: Compiler.evaluate, for a binary
\* expression and for a cast. The resolver has found every name
CompileExpr ==
    /\ returned.called
    /\ ~checker.Errored
    /\ ~lowered.done
    /\ returned.expr.node \in {"BinaryExpr", "CastExpr"}
    /\ \A k \in 1..Len(returned.expr.kids) :
          returned.expr.kids[k].node = "Ident" =>
              \E v \in ExprSymbols.vars : v.name = returned.expr.kids[k].name
    /\ LET c == visitNode(ExprCompiler, returned.expr)
       IN lowered' = [done |-> TRUE, panic |-> c.panic, typ |-> c.latestReturn.typ]
    /\ UNCHANGED <<checker, returned, poolVars, textVars, scanVars, emitVars, lexVars, libVars>>

ExprIdle ==
    /\ checker = [CurrentTable |-> <<>>, Errored |-> FALSE, latestReturnedType |-> DDPVoidType]
    /\ returned = NoReturn
    /\ lowered = NoLowered

LexIdle ==
    /\ lex = [src |-> <<>>, start |-> 0, cur |-> 0]
    /\ tok = [Type |-> "none", Literal |-> <<>>, errors |-> 0]

(***************************************************************************)
(*                  THE LITERALS OF THE SCANNER                            *)
(***************************************************************************)
MaxSrc == 4             \* characters of a source text

\* the characters of the source texts: the two quotes, the backslash, a
\* letter that is an escape and a letter that is none
Alphabet == {"\"", "'", "\\", "n", "q"}

eof == "eof"

isAlpha(r) == r \in {"n", "q"}

\* the scanner s: src, start, cur (counted from 0, as in the code) and the
\* errors the errorHandler has been called with since NextToken was called
atEnd(s) == s.cur >= Len(s.src)

advance(s) == [s EXCEPT !.cur = @ + 1]

peek(s) == IF atEnd(s) THEN eof ELSE s.src[s.cur + 1]

peekNext(s) == IF atEnd(s) \/ s.cur + 1 >= Len(s.src) THEN eof ELSE s.src[s.cur + 2]

\* Scanner.err: the errorHandler is called
scanErr(s) == [s EXCEPT !.errors = @ + 1]

\* Scanner.newToken: the token and the scanner it leaves
literalToken(s, tokenType) ==
    [s |-> s, tok |-> [Type |-> tokenType, Literal |-> SubSeq(s.src, s.start + 1, s.cur)]]

errorToken(s, msg) ==
    [s |-> scanErr(s), tok |-> [Type |-> "ILLEGAL", Literal |-> <<msg>>]]

\* a scanEscape that lets every escape pass
scanEscape_lenient(s, quote) == advance(s)

\* the bool scanEscape returns is used by none of its callers
scanEscape(s, quote) ==
    IF peekNext(s) \in {"a", "b", "n", "r", "t", "\\", quote} THEN advance(s) ELSE scanErr(s)

RECURSIVE scanString(_)
\* Scanner.string, from the character after the quote
scanString(s) ==
    IF ~atEnd(s) /\ peek(s) # "\""
    THEN scanString(advance(IF peek(s) = "\\" THEN scanEscape(s, "\"") ELSE s))
    ELSE IF atEnd(s) THEN errorToken(s, "Offenes Text Literal")
         ELSE literalToken(advance(s), "STRING")

RECURSIVE scanChar(_, _)
\* Scanner.char, from the character after the quote
scanChar(s, gotBackslash) ==
    IF ~atEnd(s) /\ peek(s) # "'"
    THEN scanChar(advance(IF peek(s) = "\\" THEN scanEscape(s, "'") ELSE s),
                  gotBackslash \/ peek(s) = "\\")
    ELSE IF atEnd(s) THEN errorToken(s, "Offenes Buchstaben Literal")
         ELSE LET t == literalToken(advance(s), "CHAR")
                  count == Len(t.tok.Literal)
              IN IF count = 3 \/ (count = 4 /\ gotBackslash) THEN t
                 ELSE [t EXCEPT !.s = scanErr(@)]

RECURSIVE scanWord(_)
\* Scanner.identifier: the letters of a word that is no keyword
scanWord(s) ==
    IF isAlpha(peek(s)) THEN scanWord(advance(s)) ELSE literalToken(s, "IDENTIFIER")

\* the source texts
Sources == SeqsOver(Alphabet, MaxSrc) \ {<<>>}

\* Scanner.NextToken of a scanner that includes no file, on a text without
\* white space
NextLiteral ==
    /\ lex.src # <<>>
    /\ LET s == [src |-> lex.src, start |-> lex.cur, cur |-> lex.cur, errors |-> 0]
           char == peek(s)
           t == IF atEnd(s) THEN literalToken(s, "EOF")
                ELSE IF isAlpha(char) THEN scanWord(advance(s))
                ELSE IF char = "\"" THEN scanString(advance(s))
                ELSE IF char = "'" THEN scanChar(advance(s), FALSE)
                ELSE errorToken(advance(s), "Unerwartetes Zeichen")
       IN /\ lex' = [src |-> t.s.src, start |-> t.s.start, cur |-> t.s.cur]
          /\ tok' = [Type |-> t.tok.Type, Literal |-> t.tok.Literal, errors |-> t.s.errors]
    /\ UNCHANGED <<poolVars, textVars, scanVars, emitVars, exprVars, libVars>>

(***************************************************************************)
(*              THE PROGRAMS THAT ASSIGN, CALL AND LOOP                    *)
(***************************************************************************)
MaxAssigns == 2         \* assignments of a function body

AssignStmt(var, rhs) == Node("AssignStmt", "", DDPVoidType, <<>>, <<var, rhs>>)

ExprStmt(expr) == Node("ExprStmt", "", DDPVoidType, <<>>, <<expr>>)

\* Die Funktion h mit den Parametern c, r, tl und i vom Typ Boolean, Text
\* Referenz, Text Liste und Zahl, gibt nichts zurück, macht: body
Caller(body) ==
    Node("FuncDecl", "h", DDPVoidType,
         << [name |-> "c", Type |-> DDPBoolType, IsReference |-> FALSE],
            [name |-> "r", Type |-> DDPStringType, IsReference |-> TRUE],
            [name |-> "tl", Type |-> DDPType("TEXT", TRUE), IsReference |-> FALSE],
            [name |-> "i", Type |-> DDPIntType, IsReference |-> FALSE] >>,
         <<Node("BlockStmt", "", DDPVoidType, <<>>, body)>>)

\* the texts a statement can name: the local x, the reference parameter r
\* and the element i of the list tl
TextPlaces == {Ident("x"), Ident("r"), Indexing(Ident("tl"), Ident("i"))}

\* Speichere rhs in var.
Assignments == {AssignStmt(var, rhs) : var \in TextPlaces, rhs \in TextPlaces}

\* Der Text x ist r. and then up to MaxAssigns assignments
AssignPrograms ==
    {<<Caller(<<VarDecl("x", DDPStringType, Ident("r"))>> \o body)>> : body \in SeqsOver(Assignments, MaxAssigns)}

MaxCallee == 3          \* statements of the body of a called function, the nested ones included

\* the parameters of g: c, t and s of type Boolean, Text and Text Referenz
CalleeParams ==
    << [name |-> "c", Type |-> DDPBoolType, IsReference |-> FALSE],
       [name |-> "t", Type |-> DDPStringType, IsReference |-> FALSE],
       [name |-> "s", Type |-> DDPStringType, IsReference |-> TRUE] >>

\* Die Funktion g ... macht: body
Callee(body) ==
    Node("FuncDecl", "g", DDPVoidType, CalleeParams, <<Node("BlockStmt", "", DDPVoidType, <<>>, body)>>)

\* Die Funktion g ... ist in "g.c" definiert
ExternCallee == Node("FuncDecl", "g", DDPVoidType, CalleeParams, <<>>)

\* the statements of g without a body: Der Text y ist t. and Verlasse die
\* Funktion.
CalleeAtoms ==
    {VarDecl("y", DDPStringType, Ident("t")), Node("ReturnStmt", "g", DDPVoidType, <<>>, <<>>)}

RECURSIVE BodiesOver(_, _)
\* the statement lists of exactly n statements over the atoms, the nested
\* ones counted
BodiesOver(atoms, n) ==
    IF n = 0 THEN {<<>>}
    ELSE UNION {{<<s>> \o rest : s \in (IF m = 1 THEN atoms ELSE {}) \cup {IfStmt(b) : b \in BodiesOver(atoms, m - 1)},
                                 rest \in BodiesOver(atoms, n - m)} : m \in 1..n}

Callees == {ExternCallee} \cup {Callee(body) : body \in UNION {BodiesOver(CalleeAtoms, n) : n \in 0..MaxCallee}}

\* g(c, t, s), the text t passed by value and s by reference
Call(t, s) == ExprStmt(FuncCall("g", <<"s", "c", "t">>, <<Ident(s), Ident("c"), Ident(t)>>))

\* Der Text x ist r. and a call of g with x or r for each of t and s
CallPrograms ==
    {<<g, Caller(<<VarDecl("x", DDPStringType, Ident("r")), Call(t, s)>>)>> :
        g \in Callees, t \in {"x", "r"}, s \in {"x", "r"}}

MaxLoop == 2            \* statements of the body of a loop, the nested ones included

\* Für jeden typ name in in, mache: body
ForRangeStmt(name, typ, in, body) ==
    Node("ForRangeStmt", name, typ, <<>>, <<in, Node("BlockStmt", "", DDPVoidType, <<>>, body)>>)

\* the statements of the body of the loop without a body: Der Text y ist e.
\* and Verlasse die Funktion.
LoopAtoms ==
    {VarDecl("y", DDPStringType, Ident("e")), Node("ReturnStmt", "h", DDPVoidType, <<>>, <<>>)}

\* Für jeden Text e in tl, mache: body
LoopPrograms ==
    {<<Caller(<<ForRangeStmt("e", DDPStringType, Ident("tl"), body)>>)>> :
        body \in UNION {BodiesOver(LoopAtoms, n) : n \in 0..MaxLoop}}

MaxOperands == 3        \* operands of an expression of und and oder

\* a literal with its Value: the one parameter of the node
IntLitOf(v) == Node("IntLit", "", DDPVoidType, <<v>>, <<>>)

BoolLitOf(v) == Node("BoolLit", "", DDPVoidType, <<v>>, <<>>)

ReturnStmt(func, value) == Node("ReturnStmt", func, DDPVoidType, <<>>, <<value>>)

\* Die Funktion p mit den Parametern k und v vom Typ Zahl und Boolean, gibt
\* einen Boolean zurück, macht: Gib v zurück.
Operand ==
    Node("FuncDecl", "p", DDPBoolType,
         << [name |-> "k", Type |-> DDPIntType, IsReference |-> FALSE],
            [name |-> "v", Type |-> DDPBoolType, IsReference |-> FALSE] >>,
         <<Node("BlockStmt", "", DDPVoidType, <<>>, <<ReturnStmt("p", Ident("v"))>>)>>)

\* p(k, v): the k-th operand, of the truth value v
OperandCall(k, v) == FuncCall("p", <<"k", "v">>, <<IntLitOf(k), BoolLitOf(v)>>)

RECURSIVE LogicExprs(_, _)
\* the expressions of und and oder over the operands lo to hi, in this
\* order and in every grouping
LogicExprs(lo, hi) ==
    IF lo = hi THEN {OperandCall(lo, v) : v \in 0..1}
    ELSE UNION {{BinaryExpr(lhs, op, rhs) : lhs \in LogicExprs(lo, m), op \in {"UND", "ODER"},
                                          rhs \in LogicExprs(m + 1, hi)} : m \in lo..(hi - 1)}

\* Die Funktion f gibt einen Boolean zurück, macht: Gib expr zurück.
LogicPrograms ==
    {<<Operand, Node("FuncDecl", "f", DDPBoolType, <<>>,
                     <<Node("BlockStmt", "", DDPVoidType, <<>>, <<ReturnStmt("f", expr)>>)>>)>> :
        expr \in UNION {LogicExprs(0, n - 1) : n \in 2..MaxOperands}}

\* Die Funktion tick mit dem Parameter k vom Typ Zahl, gibt nichts zurück,
\* ist in "tick.c" definiert
Tick ==
    Node("FuncDecl", "tick", DDPVoidType, << [name |-> "k", Type |-> DDPIntType, IsReference |-> FALSE] >>, <<>>)

\* tick(k).
TickCall(k) == ExprStmt(FuncCall("tick", <<"k">>, <<k>>))

\* Die Funktion w mit dem Parameter i vom Typ Zahl, gibt nichts zurück,
\* macht: body
Looper(body) ==
    Node("FuncDecl", "w", DDPVoidType, << [name |-> "i", Type |-> DDPIntType, IsReference |-> FALSE] >>,
         <<Node("BlockStmt", "", DDPVoidType, <<>>, body)>>)

WhileStmt(While, Condition, body) ==
    Node("WhileStmt", While, DDPVoidType, <<>>, <<Condition, Node("BlockStmt", "", DDPVoidType, <<>>, body)>>)

\* Solange i größer als 0 ist, mache: tick(i). Speichere i minus 1 in i.
\* the same with Mache ... solange i größer als 0 ist, and Wiederhole i
\* Mal: tick(i).
WhilePrograms ==
    {<<Tick, Looper(<<WhileStmt(While, BinaryExpr(Ident("i"), "GROESSER", IntLitOf(0)),
                                <<TickCall(Ident("i")),
                                  AssignStmt(Ident("i"), BinaryExpr(Ident("i"), "MINUS", IntLitOf(1)))>>)>>)>> :
        While \in {"SOLANGE", "MACHE"}}
    \cup {<<Tick, Looper(<<WhileStmt("WIEDERHOLE", Ident("i"), <<TickCall(Ident("i"))>>)>>)>>}

\* Für jede Zahl j von start bis to, mache: tick(j). The initializer is the
\* VarDecl itself, and the step size is left out
ForStmt(start, to, body) ==
    Node("ForStmt", "", DDPVoidType, <<>>,
         <<Node("VarDecl", "j", DDPIntType, <<>>, <<start>>), to, Node("BlockStmt", "", DDPVoidType, <<>>, body)>>)

MaxSpan == 1            \* the largest of start and bis; the smallest is -MaxSpan

\* the loops from a constant or from the parameter i to a constant
ForPrograms ==
    {<<Tick, Looper(<<ForStmt(start, IntLitOf(to), <<TickCall(Ident("j"))>>)>>)>> :
        start \in {IntLitOf(v) : v \in (-MaxSpan)..MaxSpan} \cup {Ident("i")}, to \in (-MaxSpan)..MaxSpan}

(***************************************************************************)
(*                THE BYTE COLLECTIONS OF THE STANDARD LIBRARY             *)
(***************************************************************************)

\* the longest ByteSammlung passed in
MaxBytes == 2

\* sizeof(ddpint), bytes.c:12
SIZEOF_DDPINT == 8

\* the values a byte of an argument takes
ByteValues == {0, 7, 255}

\* #define UP_8(n) (((n) + 7) & ~7)
UP_8(n) == ((n + 7) \div 8) * 8

\* memset(dst + off, c, n)
memset(dst, off, c, n) ==
    [k \in 1..Len(dst) |-> IF k - 1 >= off /\ k - 1 < off + n THEN c ELSE dst[k]]

\* static size_t allocate_bytes(ByteSammlung *bytes, size_t n); the list of
\* needed_bytes / sizeof(ddpint) numbers is seen as its bytes
allocate_bytes(n) ==
    LET needed_bytes == IF n % SIZEOF_DDPINT # 0 THEN UP_8(n) ELSE n
    IN [bytes |-> ALLOCATE((needed_bytes \div SIZEOF_DDPINT) * SIZEOF_DDPINT),
        len |-> n, needed_bytes |-> needed_bytes]

\* what memcpy reads from n bytes at src: the buffer, and behind its end
\* whatever lies there
Read(src, n) ==
    {q \in SeqsOver(ByteValues, n) :
        Len(q) = n /\ \A k \in 1..n : k <= Len(src) => q[k] = src[k]}

\* void ByteSammlung_Verkettet(ByteSammlung *ret, ByteSammlung *a, ByteSammlung *b):
\* the values *ret can have after the call
ByteSammlung_Verkettet(a, b) ==
    LET ret    == allocate_bytes(a.len + b.len)
        aBytes == a.bytes
        bBytes == a.bytes
        r1     == memcpy(ret.bytes, 0, aBytes, 0, a.len)
    IN {[bytes |-> memset(memcpy(r1, a.len, src, 0, b.len), ret.len, 0,
                          ret.needed_bytes - ret.len),
         len |-> ret.len,
         ub |-> b.len > Len(bBytes)] : src \in Read(bBytes, b.len)}

\* a ByteSammlung of the bytes q: len bytes in a list of whole numbers, the
\* rest of the last number zero (allocate_bytes and the memset of every
\* function that builds one)
Bytes(q) ==
    [bytes |-> [k \in 1..UP_8(Len(q)) |-> IF k <= Len(q) THEN q[k] ELSE 0], len |-> Len(q)]

ByteSammlungen == {Bytes(q) : q \in SeqsOver(ByteValues, MaxBytes)}

NoBytes == [bytes |-> <<>>, len |-> 0, ub |-> FALSE]

Verkettet ==
    /\ bsRet = NoBytes
    /\ bsIn.called = FALSE
    /\ bsRet' \in ByteSammlung_Verkettet(bsIn.a, bsIn.b)
    /\ bsIn' = [bsIn EXCEPT !.called = TRUE]
    /\ UNCHANGED <<poolVars, textVars, scanVars, emitVars, exprVars, lexVars, procVars>>

BytesIdle ==
    /\ bsIn = [a |-> Bytes(<<>>), b |-> Bytes(<<>>), called |-> FALSE]
    /\ bsRet = NoBytes

(***************************************************************************)
(*                  THE EXECUTION OF A CHILD PROCESS                       *)
(***************************************************************************)

\* the most bytes the input, the standard output and the standard error have
MaxIO == 3

\* the bytes a pipe holds before write blocks (65536 on Linux, scaled down)
PIPE_CAPACITY == 2

\* BUFF_SIZE is 512 in part_003:18; scaled down
BUFF_SIZE == 2

Min(a, b) == IF a < b THEN a ELSE b

\* execute_process has not been called
NoProcess ==
    [ppc |-> "idle", cpc |-> "idle", need_stderr |-> FALSE,
     input |-> 0, outLen |-> 0, errLen |-> 0, status |-> 0,
     stdin |-> 0, stdin_open |-> FALSE, out |-> 0, err |-> 0,
     cout |-> 0, cerr |-> 0, stdoutput |-> 0, erroutput |-> 0, ret |-> 0]

\* the processes after fork(): the parent is about to write input->cap
\* bytes; the child will read its standard input to the end, write outLen
\* bytes to standard output and errLen bytes to standard error, and exit
Forked(need_stderr, cap, outLen, errLen, status) ==
    [NoProcess EXCEPT !.ppc = "write", !.cpc = "read", !.need_stderr = need_stderr,
                      !.input = cap, !.outLen = outLen, !.errLen = errLen,
                      !.status = status, !.stdin_open = TRUE,
                      !.cout = outLen, !.cerr = errLen]

\* write(stdin_fd[WRITE_END], input->str, input->cap): the call returns when
\* the pipe has taken every byte
ParentWrite ==
    /\ proc.ppc = "write"
    /\ proc.input = 0 \/ proc.stdin < PIPE_CAPACITY
    /\ LET k == Min(proc.input, PIPE_CAPACITY - proc.stdin)
       IN proc' = [proc EXCEPT !.stdin = @ + k, !.input = @ - k,
                               !.ppc = IF proc.input - k = 0 THEN "close" ELSE "write"]
    /\ UNCHANGED <<poolVars, textVars, scanVars, emitVars, exprVars, lexVars, bytesVars>>

\* close(stdin_fd[WRITE_END])
ParentClose ==
    /\ proc.ppc = "close"
    /\ proc' = [proc EXCEPT !.stdin_open = FALSE, !.ppc = "wait"]
    /\ UNCHANGED <<poolVars, textVars, scanVars, emitVars, exprVars, lexVars, bytesVars>>

\* wait(&exit_code): returns when the child has exited
ParentWait ==
    /\ proc.ppc = "wait"
    /\ proc.cpc = "exited"
    /\ proc' = [proc EXCEPT !.ppc = "read_out"]
    /\ UNCHANGED <<poolVars, textVars, scanVars, emitVars, exprVars, lexVars, bytesVars>>

\* one read of read_pipe(stdout_fd[READ_END], &stdoutput->str): bytes if the
\* pipe holds some, the end of the loop if no write end is open any more
ParentReadOut ==
    /\ proc.ppc = "read_out"
    /\ proc.out > 0 \/ proc.cpc = "exited"
    /\ LET nread == Min(proc.out, BUFF_SIZE)
       IN proc' = IF nread > 0
                  THEN [proc EXCEPT !.out = @ - nread, !.stdoutput = @ + nread]
                  ELSE [proc EXCEPT !.ppc = IF proc.need_stderr THEN "read_err" ELSE "return"]
    /\ UNCHANGED <<poolVars, textVars, scanVars, emitVars, exprVars, lexVars, bytesVars>>

\* one read of read_pipe(stderr_fd[READ_END], &erroutput->str)
ParentReadErr ==
    /\ proc.ppc = "read_err"
    /\ proc.err > 0 \/ proc.cpc = "exited"
    /\ LET nread == Min(proc.err, BUFF_SIZE)
       IN proc' = IF nread > 0
                  THEN [proc EXCEPT !.err = @ - nread, !.erroutput = @ + nread]
                  ELSE [proc EXCEPT !.ppc = "return"]
    /\ UNCHANGED <<poolVars, textVars, scanVars, emitVars, exprVars, lexVars, bytesVars>>

\* return (ddpint)WEXITSTATUS(exit_code)
ParentReturn ==
    /\ proc.ppc = "return"
    /\ proc' = [proc EXCEPT !.ret = proc.status, !.ppc = "returned"]
    /\ UNCHANGED <<poolVars, textVars, scanVars, emitVars, exprVars, lexVars, bytesVars>>

\* the child reads its standard input: bytes if the pipe holds some, the
\* end of the input if the parent has closed the write end
ChildRead ==
    /\ proc.cpc = "read"
    /\ proc.stdin > 0 \/ ~proc.stdin_open
    /\ proc' = IF proc.stdin > 0 THEN [proc EXCEPT !.stdin = 0]
               ELSE [proc EXCEPT !.cpc = "write"]
    /\ UNCHANGED <<poolVars, textVars, scanVars, emitVars, exprVars, lexVars, bytesVars>>

\* the child writes to its standard output as far as the pipe takes it
ChildWriteOut ==
    /\ proc.cpc = "write"
    /\ proc.cout > 0
    /\ proc.out < PIPE_CAPACITY
    /\ LET k == Min(proc.cout, PIPE_CAPACITY - proc.out)
       IN proc' = [proc EXCEPT !.out = @ + k, !.cout = @ - k]
    /\ UNCHANGED <<poolVars, textVars, scanVars, emitVars, exprVars, lexVars, bytesVars>>

\* the child writes to its standard error, which is the pipe of the
\* standard output unless need_stderr (the dup2 calls of part_003:251-252)
ChildWriteErr ==
    /\ proc.cpc = "write"
    /\ proc.cerr > 0
    /\ IF proc.need_stderr
       THEN /\ proc.err < PIPE_CAPACITY
            /\ LET k == Min(proc.cerr, PIPE_CAPACITY - proc.err)
               IN proc' = [proc EXCEPT !.err = @ + k, !.cerr = @ - k]
       ELSE /\ proc.out < PIPE_CAPACITY
            /\ LET k == Min(proc.cerr, PIPE_CAPACITY - proc.out)
               IN proc' = [proc EXCEPT !.out = @ + k, !.cerr = @ - k]
    /\ UNCHANGED <<poolVars, textVars, scanVars, emitVars, exprVars, lexVars, bytesVars>>

\* the child has written everything and exits; its ends of the pipes close
ChildExit ==
    /\ proc.cpc = "write"
    /\ proc.cout = 0
    /\ proc.cerr = 0
    /\ proc' = [proc EXCEPT !.cpc = "exited"]
    /\ UNCHANGED <<poolVars, textVars, scanVars, emitVars, exprVars, lexVars, bytesVars>>

execute_process ==
    ParentWrite \/ ParentClose \/ ParentWait \/ ParentReadOut \/ ParentReadErr \/ ParentReturn

child_process == ChildRead \/ ChildWriteOut \/ ChildWriteErr \/ ChildExit

ProcIdle == proc = NoProcess

LibIdle == BytesIdle /\ ProcIdle

(***************************************************************************)
(*                        THE SPECIFICATIONS                               *)
(***************************************************************************)

InitPool == PoolIdle /\ TextIdle /\ ScanIdle /\ EmitIdle /\ ExprIdle /\ LexIdle /\ LibIdle

NextPool == ddp_allocate_refcount \/ ddp_free_refcount

SpecPool == InitPool /\ [][NextPool]_vars

NextPoolExit == ddp_allocate_refcount \/ ddp_free_refcount \/ ddp_free_refc_blocks

SpecPoolExit == InitPool /\ [][NextPoolExit]_vars

InitText ==
    /\ ExprIdle
    /\ LexIdle
    /\ LibIdle
    /\ PoolIdle
    /\ ScanIdle
    /\ EmitIdle
    /\ txt \in Texts
    /\ txtOp = "none"
    /\ txtIn = [s |-> txt.str, a |-> 0, b |-> 0, t |-> <<>>]

NextText ==
    \/ Slice
    \/ StringStringVerkettet
    \/ CharStringVerkettet
    \/ StringCharVerkettet
    \/ ReplaceChar
    \/ IntToString
    \/ BoolToString
    \/ CharToString

SpecText == InitText /\ [][NextText]_vars

InitScan ==
    /\ ExprIdle
    /\ LexIdle
    /\ LibIdle
    /\ PoolIdle
    /\ TextIdle
    /\ EmitIdle
    /\ fs \in Disks
    /\ scn = <<New(RootPath)>>
    /\ out = <<>>

NextScan == ScanAll

\* ScanAll loops until EOF: weak fairness of ScanAll, whose enabling condition
\* is written out
ScanPending == scn # <<>> /\ ~ScanFinished

SpecScan == InitScan /\ [][NextScan]_vars /\ ([]<>~ScanPending \/ []<><<ScanAll>>_vars)

InitInclude ==
    /\ ExprIdle
    /\ LexIdle
    /\ LibIdle
    /\ PoolIdle
    /\ TextIdle
    /\ EmitIdle
    /\ fs \in SourceDisks
    /\ scn = <<New(RootPath)>>
    /\ out = <<>>

SpecInclude == InitInclude /\ [][NextScan]_vars /\ ([]<>~ScanPending \/ []<><<ScanAll>>_vars)


InitEmit ==
    /\ ExprIdle
    /\ LexIdle
    /\ LibIdle
    /\ PoolIdle
    /\ TextIdle
    /\ ScanIdle
    \* the parser is not part of the sources: where it gave up on a
    \* statement the tree comes with Faulty set, or without
    /\ \E body \in Programs : \E Faulty \in {FALSE, HasBad(body)} :
          ast = [Statements |-> <<FuncDecl(body)>>, Faulty |-> Faulty]
    /\ stage = "parsed"
    /\ diag = [resolver |-> FALSE, typechecker |-> FALSE]
    /\ mod = NoModule
    /\ run = NoRun

NextEmit ==
    \/ ResolveAst
    \/ TypecheckAst
    \/ Compile
    \/ Start
    \/ Step

SpecEmit == InitEmit /\ [][NextEmit]_vars


InitExpr ==
    /\ PoolIdle
    /\ TextIdle
    /\ ScanIdle
    /\ EmitIdle
    /\ LexIdle
    /\ LibIdle
    /\ checker = [CurrentTable |-> <<ExprSymbols>>, Errored |-> FALSE, latestReturnedType |-> DDPVoidType]
    /\ returned = NoReturn
    /\ lowered = NoLowered

NextExpr == NewTypechecker \/ TypecheckNode \/ Evaluate

SpecExpr == InitExpr /\ [][NextExpr]_vars

\* the type checker, and the emitter behind it
NextLower == NextExpr \/ CompileExpr

SpecLower == InitExpr /\ [][NextLower]_vars


InitLex ==
    /\ PoolIdle
    /\ TextIdle
    /\ ScanIdle
    /\ EmitIdle
    /\ ExprIdle
    /\ LibIdle
    /\ lex \in {[src |-> src, start |-> 0, cur |-> 0] : src \in Sources}
    /\ tok = [Type |-> "none", Literal |-> <<>>, errors |-> 0]

NextLex == NextLiteral

SpecLex == InitLex /\ [][NextLex]_vars


\* a tree the resolver and the type checker have passed without an error
Checked(statements) ==
    /\ ExprIdle
    /\ LexIdle
    /\ LibIdle
    /\ PoolIdle
    /\ TextIdle
    /\ ScanIdle
    /\ ast = [Statements |-> statements, Faulty |-> FALSE]
    /\ stage = "checked"
    /\ diag = [resolver |-> FALSE, typechecker |-> FALSE]
    /\ mod = NoModule
    /\ run = NoRun

NextRun ==
    \/ Compile
    \/ Start
    \/ Step

InitAssign == \E program \in AssignPrograms : Checked(program)

SpecAssign == InitAssign /\ [][NextRun]_vars


InitCall == \E program \in CallPrograms : Checked(program)

SpecCall == InitCall /\ [][NextRun]_vars


InitLoop == \E program \in LoopPrograms : Checked(program)

SpecLoop == InitLoop /\ [][NextRun]_vars

InitLogic == \E program \in LogicPrograms : Checked(program)

SpecLogic == InitLogic /\ [][NextRun]_vars

InitWhile == \E program \in WhilePrograms : Checked(program)

\* a function that was called is executed to its end: weak fairness of the
\* blocks
SpecWhile == InitWhile /\ [][NextRun]_vars /\ WF_vars(Step)

InitFor == \E program \in ForPrograms : Checked(program)

SpecFor == InitFor /\ [][NextRun]_vars

InitBytes ==
    /\ PoolIdle
    /\ TextIdle
    /\ ScanIdle
    /\ EmitIdle
    /\ ExprIdle
    /\ LexIdle
    /\ bsIn \in {[a |-> a, b |-> b, called |-> FALSE] : a, b \in ByteSammlungen}
    /\ bsRet = NoBytes
    /\ ProcIdle

NextBytes == Verkettet

SpecBytes == InitBytes /\ [][NextBytes]_vars

InitProc ==
    /\ PoolIdle
    /\ TextIdle
    /\ ScanIdle
    /\ EmitIdle
    /\ ExprIdle
    /\ LexIdle
    /\ BytesIdle
    /\ proc \in {Forked(need_stderr, cap, outLen, errLen, status) :
                    need_stderr \in BOOLEAN, cap \in 0..MaxIO, outLen \in 0..MaxIO,
                    errLen \in 0..MaxIO, status \in {0, 1}}

NextProc == execute_process \/ child_process

\* the scheduler of the system lets every process run that is not blocked
SpecProc == InitProc /\ [][NextProc]_vars /\ WF_vars(execute_process) /\ WF_vars(child_process)

(***************************************************************************)
(*                        THE CLAIMS                                       *)
(***************************************************************************)

(***************************************************************************)
(* C1: on every path through the emitted code of a function, every heap    *)
(* object that a scope of the function owns (the value of a heap-typed,    *)
(* non-reference local or by-value parameter, a temporary) is released     *)
(* exactly once: never twice, and once when the function returns.          *)
(***************************************************************************)
C1_ReleasedExactlyOnce ==
    \A o \in 1..Len(run.objs) :
        run.objs[o].owner = "callee" =>
            /\ run.objs[o].frees <= 1
            /\ run.st = "ret" => run.objs[o].frees = 1

(***************************************************************************)
(* C2: every refcount address that was returned and is not yet freed lies  *)
(* at a slot index 0..REFC_PER_BLOCK-1 of an allocated block that is       *)
(* linked in the pool (reached from refc_end over prev and from refc_root  *)
(* over next) and whose used bit of that index is set; a step of           *)
(* ddp_free_refcount(a) clears the bit of a and changes no other bit of    *)
(* any block.                                                              *)
(***************************************************************************)
C2_HeldInPool ==
    \A a \in held :
        /\ a[2] \in Slots
        /\ a[1] \in Linked(pool)
        /\ a[1] \in chain_next(pool, pool.root, MaxBlocks)
        /\ pool.heap[a[1]].mem = "alloc"
        /\ a[2] \in pool.heap[a[1]].used

C2_FreeClearsOneBit ==
    \A a \in held :
        (held' = held \ {a}) =>
            /\ a[2] \notin pool'.heap[a[1]].used
            /\ \A b \in BlockIds : \A i \in Slots :
                   <<b, i>> # a => ((i \in pool'.heap[b].used) <=> (i \in pool.heap[b].used))

C2_PoolSlots == []C2_HeldInPool /\ [][C2_FreeClearsOneBit]_vars

\* a free has acted on a pool of two linked blocks and another address is still held
C2_Witness ==
    /\ poolOp = "free"
    /\ held # {}
    /\ pool.root # pool.end
    /\ pool.cache[1] # NULL

(***************************************************************************)
(* C3: when Compile has finished, the Term of every basic block of the     *)
(* module has been set exactly once: no block is without a terminator,     *)
(* and no terminator has been replaced by a later one.                     *)
(***************************************************************************)
C3_OneTerminator ==
    \A b \in 1..Len(mod.blocks) :
        /\ mod.blocks[b].Term.op # "none"
        /\ mod.blocks[b].nterm = 1

(***************************************************************************)
(* C4: in the pipeline resolver, type checker, emitter: a stage that ends  *)
(* with Errored, or that has met a Bad node, leaves the tree Faulty; no    *)
(* stage takes Faulty back; the type checker and Compile run on a Faulty   *)
(* tree as well, and the type checker still finds the type errors of it;   *)
(* Compile on a Faulty tree returns an error and no IR.                    *)
(***************************************************************************)
RECURSIVE Mistyped(_)
\* a statement the type checker has to report: a text declared with the
\* number i or with the undeclared q, or a Bad node
Mistyped(nodes) ==
    \E k \in 1..Len(nodes) :
        \/ nodes[k].node \in {"BadDecl", "BadStmt", "BadExpr"}
        \/ nodes[k].node = "VarDecl" /\ nodes[k].kids[1].name \in {"i", "q"}
        \/ Mistyped(nodes[k].kids)

C4_Marked ==
    /\ (stage # "parsed" /\ (diag.resolver \/ HasBad(ast.Statements))) => ast.Faulty
    /\ HasBad(ast.Statements) => (stage = "parsed" \/ diag.resolver)
    /\ stage \in {"checked", "compiled"} =>
          /\ diag.typechecker => ast.Faulty
          /\ Mistyped(ast.Statements) => diag.typechecker
    /\ (stage = "compiled" /\ ast.Faulty) => (mod.err /\ mod.blocks = <<>>)

C4_Kept == ast.Faulty => ast'.Faulty

C4_FaultySuppresses == []C4_Marked /\ [][C4_Kept]_vars

\* Compile has refused a tree without a Bad node, in which the resolver
\* and, after it, the type checker have found an error
C4_Witness ==
    /\ stage = "compiled"
    /\ ~HasBad(ast.Statements)
    /\ diag.resolver
    /\ diag.typechecker
    /\ mod.err

(***************************************************************************)
(* C5: for a list of length len and a source index i, the code that        *)
(* getElementPointer emits accesses an element only when 1 <= i <= len,    *)
(* and then the element i-1; it calls out_of_bounds only when i is not in  *)
(* that range, with i and len, and the call ends the run; the block of     *)
(* the call ends in unreachable.                                           *)
(***************************************************************************)
C5_BoundsChecked ==
    /\ \A k \in 1..Len(run.events) :
          LET e == run.events[k]
              i == run.args[4].a
              len == run.objs[2].len
          IN /\ e.e = "access" => (1 <= i /\ i <= len /\ e.y = i - 1 /\ run.objs[e.x].len = len)
             /\ e.e = "out_of_bounds" =>
                   (~(1 <= i /\ i <= len) /\ e.x = i /\ e.y = len /\ k = Len(run.events) /\ run.st = "trap")
    /\ \A b \in 1..Len(mod.blocks) : \A n \in 1..Len(mod.blocks[b].Insts) :
          mod.blocks[b].Insts[n].fn = "out_of_bounds" =>
              (n = Len(mod.blocks[b].Insts) /\ mod.blocks[b].Term.op = "unreachable")

\* the last element of a list has been read, and the function has returned
C5_Witness ==
    /\ run.st = "ret"
    /\ \E k \in 1..Len(run.events) :
          run.events[k] = [e |-> "access", x |-> run.events[k].x, y |-> run.objs[2].len - 1]

(***************************************************************************)
(* C6: for every graph of include directives, cycles and diamonds          *)
(* included, a scan that starts from a file loaded from disk emits every   *)
(* token of every file at most once, and the scan reaches the final EOF.   *)
(***************************************************************************)
C6_AtMostOnce ==
    \A i \in 1..Len(out) : \A j \in 1..Len(out) :
        (Abs(out[i].file) = Abs(out[j].file) /\ out[i].n = out[j].n) => i = j

C6_IncludedOnce == []C6_AtMostOnce /\ <>ScanFinished

\* a scan is over in which a and c include each other and b and c both include d
C6_Witness ==
    /\ ScanFinished
    /\ fs[<<"/", "p", "a">>] = Interleaved(<< <<"b">>, <<"sub", "c">> >>)
    /\ fs[<<"/", "p", "b">>] = Interleaved(<< <<"Duden", "d">> >>)
    /\ fs[<<"/", "p", "sub", "c">>] = Interleaved(<< <<"Duden", "d">>, <<"..", "a">> >>)
    /\ \E i \in 1..Len(out) : out[i].file = <<"/", "ddp", "Duden", "d">>

(***************************************************************************)
(* C7: a heap-typed reference parameter is read through the pointer the    *)
(* caller passed; the value read is used for one thing only, a deep copy   *)
(* (as for every heap-typed variable), and is never released; whatever     *)
(* path the callee takes, the caller's slot and the text in it are as the  *)
(* caller passed them.                                                     *)
(***************************************************************************)
\* the instructions of the module
Instructions ==
    UNION {{mod.blocks[b].Insts[n] : n \in 1..Len(mod.blocks[b].Insts)} : b \in 1..Len(mod.blocks)}

\* the registers the module loads through a parameter
RefLoads ==
    {i.dst : i \in {j \in Instructions : j.op = "load" /\ j.args[1].k = "param"}}

\* what register d is used for: the callees of the calls that have it among
\* their arguments, and "" for an instruction that is not a call
UsesOf(d) ==
    {i.fn : i \in {j \in Instructions : \E a \in 1..Len(j.args) : j.args[a].k = "reg" /\ j.args[a].v = d}}

C7_Borrowed ==
    run.args # <<>> => (run.objs[1].frees = 0 /\ run.cells[1] = RunValue("obj", 1, 0))

C7_ReferenceCopiedNotReleased ==
    /\ \A d \in RefLoads : UsesOf(d) = {"_ddp_deep_copy_string"}
    /\ C7_Borrowed

\* as the claim was stated: no deep copy and no release
C7_ReferenceNotCopied ==
    /\ \A d \in RefLoads : UsesOf(d) = {}
    /\ C7_Borrowed

\* f has read its reference parameter and has returned
C7_Witness ==
    /\ run.st = "ret"
    /\ \E d \in RefLoads : run.regs[d].k = "obj"

(***************************************************************************)
(* C8: after every runtime text operation (slice, the three                *)
(* concatenations, replace-char, the to-string conversions) that returns,  *)
(* the resulting text has cap equal to the byte length of its content plus *)
(* one, and the byte at offset cap-1 is the terminator 0.                  *)
(***************************************************************************)
C8_CapIsLengthPlusOne ==
    (txtOp # "none" /\ ~txt.err) =>
        /\ txt.cap = strlen(txt.str) + 1
        /\ txt.cap <= Len(txt.str)
        /\ At(txt.str, txt.cap - 1) = 0

\* the byte offsets at which the characters of s start
CharStarts(s) == {k \in 0..(strlen(s) - 1) : ~IsContinuation(At(s, k))}

\* the byte offset of character n (counted from 1), the content's end for the one after the last
CharOffset(s, n) ==
    IF n > Cardinality(CharStarts(s)) THEN strlen(s)
    ELSE CHOOSE k \in CharStarts(s) : Cardinality({m \in CharStarts(s) : m < k}) = n - 1

\* the bytes of the characters i..j of s
CharBytes(s, i, j) == SubSeq(s, CharOffset(s, i) + 1, CharOffset(s, j + 1))

(***************************************************************************)
(* C9: for a non-empty text s of L characters, each encoded in 1 to 4      *)
(* bytes, the slice from i to j with 1 <= i <= j <= L consists of exactly  *)
(* the bytes of the characters i..j of s; the slice from 1 to L is s.      *)
(***************************************************************************)
C9_SliceIsCharacters ==
    (/\ txtOp = "slice"
     /\ 1 <= txtIn.a /\ txtIn.a <= txtIn.b /\ txtIn.b <= utf8_strlen(txtIn.s)) =>
        /\ ~txt.err
        /\ SubSeq(txt.str, 1, strlen(txt.str)) = CharBytes(txtIn.s, txtIn.a, txtIn.b)

(***************************************************************************)
(* C10: the pool starts empty; right after ddp_free_refc_blocks() the pool *)
(* holds no block at all (no root, no tail, no cached block), every block  *)
(* was released exactly once, and no pool operation ever touches a         *)
(* released block.                                                         *)
(***************************************************************************)
C10_TeardownLeavesNothing ==
    /\ ~pool.ub
    /\ (poolOp = "none" => pool.root = NULL /\ pool.end = NULL /\ Linked(pool) = {})
    /\ (poolOp = "teardown" =>
            /\ pool.root = NULL
            /\ pool.end = NULL
            /\ \A i \in 1..CACHED_BLOCKS : pool.cache[i] = NULL
            /\ \A b \in BlockIds : pool.heap[b].mem # "alloc")

(***************************************************************************)
(* The types of the expressions Evaluate is called with, read off the      *)
(* declarations: of a literal, of a declared name, of an element.          *)
(***************************************************************************)
StaticType(e) ==
    CASE e.node = "IntLit" -> DDPIntType
      [] e.node = "FloatLit" -> DDPFloatType
      [] e.node = "BoolLit" -> DDPBoolType
      [] e.node = "CharLit" -> DDPCharType
      [] e.node = "StringLit" -> DDPStringType
      [] e.node = "Ident" /\ e.name = "i" -> DDPIntType
      [] e.node = "Ident" /\ e.name = "s" -> DDPStringType
      [] e.node = "Ident" /\ e.name = "b" -> DDPCharType
      [] e.node = "Ident" /\ e.name = "l" -> DDPType("ZAHL", TRUE)
      [] e.node = "Ident" /\ e.name = "bl" -> DDPType("BUCHSTABE", TRUE)
      [] e.node = "Indexing" -> DDPCharType
      [] OTHER -> DDPVoidType

Numeric == {DDPIntType, DDPFloatType}

\* Evaluate has returned from a binary expression with one of the operators,
\* and the Typechecker had not Errored before the call
Evaluated(operators) ==
    /\ returned.called
    /\ ~returned.before.Errored
    /\ returned.expr.node = "BinaryExpr"
    /\ returned.expr.name \in operators

(***************************************************************************)
(* C11: the type checker accepts gleich and ungleich exactly when the two  *)
(* operand types are identical, and kleiner, kleiner oder, größer, größer  *)
(* oder exactly when both operand types are numeric (Zahl or Kommazahl, in *)
(* any combination); every other pair is reported. The result type is      *)
(* Boolean.                                                                *)
(***************************************************************************)
C11_ComparisonTyping ==
    LET lhs == StaticType(returned.expr.kids[1])
        rhs == StaticType(returned.expr.kids[2])
    IN /\ Evaluated({"GLEICH", "UNGLEICH"}) =>
             /\ returned.typ = DDPBoolType
             /\ ~checker.Errored <=> lhs = rhs
       /\ Evaluated({"KLEINER", "KLEINERODER", "GROESSER", "GROESSERODER"}) =>
             /\ returned.typ = DDPBoolType
             /\ ~checker.Errored <=> (lhs \in Numeric /\ rhs \in Numeric)

\* C11 as the claim has it: a relational operator is accepted only when
\* the operand types are identical and numeric
C11_RelationalIdentical ==
    LET lhs == StaticType(returned.expr.kids[1])
        rhs == StaticType(returned.expr.kids[2])
    IN Evaluated({"KLEINER", "KLEINERODER", "GROESSER", "GROESSERODER"}) =>
          /\ returned.typ = DDPBoolType
          /\ ~checker.Errored <=> (lhs = rhs /\ lhs \in Numeric)

\* Zahl kleiner Kommazahl has been accepted
C11_Witness ==
    /\ Evaluated({"KLEINER"})
    /\ returned.expr.kids = <<IntLit, FloatLit>>
    /\ ~checker.Errored
    /\ returned.typ = DDPBoolType

(***************************************************************************)
(* C12: for numeric operands plus, minus and mal have the type Zahl when   *)
(* both are Zahl and Kommazahl otherwise, durch has the type Kommazahl,    *)
(* and none of them is reported; modulo is accepted for Zahl and Zahl      *)
(* only; a pair with an operand that is not numeric is reported.           *)
(***************************************************************************)
C12_ArithmeticTyping ==
    LET lhs == StaticType(returned.expr.kids[1])
        rhs == StaticType(returned.expr.kids[2])
        numeric == lhs \in Numeric /\ rhs \in Numeric
    IN /\ Evaluated({"PLUS", "MINUS", "MAL"}) =>
             /\ ~checker.Errored <=> numeric
             /\ numeric => returned.typ = (IF lhs = DDPIntType /\ rhs = DDPIntType
                                           THEN DDPIntType ELSE DDPFloatType)
       /\ Evaluated({"DURCH"}) =>
             /\ ~checker.Errored <=> numeric
             /\ numeric => returned.typ = DDPFloatType
       /\ Evaluated({"MODULO"}) =>
             /\ ~checker.Errored <=> (lhs = DDPIntType /\ rhs = DDPIntType)
             /\ ~checker.Errored => returned.typ = DDPIntType

\* Zahl plus Kommazahl is a Kommazahl, and Zahl durch Zahl as well
C12_Witness ==
    /\ Evaluated({"PLUS", "DURCH"})
    /\ ~checker.Errored
    /\ returned.typ = DDPFloatType
    /\ StaticType(returned.expr.kids[1]) = DDPIntType

(***************************************************************************)
(* C13: the type Evaluate returns for an expression is the type a new      *)
(* Typechecker with the same table returns for it, whatever the            *)
(* Typechecker has visited before and whatever it has left in              *)
(* latestReturnedType, also for the operators that assign no type.         *)
(***************************************************************************)
C13_Deterministic ==
    returned.called =>
        returned.typ = visit([CurrentTable |-> <<ExprSymbols>>, Errored |-> FALSE,
                              latestReturnedType |-> DDPVoidType], returned.expr).latestReturnedType

\* BETRAG, which assigns no type, on a Zahl after a Text has been visited
C13_Witness ==
    /\ returned.called
    /\ returned.expr = UnaryExpr("BETRAG", IntLit)
    /\ returned.before.latestReturnedType = DDPStringType
    /\ returned.typ = DDPIntType

RECURSIVE Fails(_, _, _)
\* the literal that opens with quote before the k-th character of src is
\* not closed, or holds an escape sequence that is not known, as read off
\* the text: an escape is a backslash and the character after it
Fails(src, k, quote) ==
    IF k > Len(src) THEN TRUE
    ELSE IF src[k] = quote THEN FALSE
    ELSE IF src[k] # "\\" THEN Fails(src, k + 1, quote)
    ELSE IF k + 1 <= Len(src) /\ src[k + 1] \in {"n", "\\", quote} THEN Fails(src, k + 2, quote)
    ELSE TRUE

(***************************************************************************)
(* C15: NextToken on a string or char literal that is not closed or that   *)
(* holds an unknown escape sequence calls the error handler and returns an *)
(* ILLEGAL token.                                                          *)
(***************************************************************************)
C15_LiteralFailureIsIllegal ==
    (/\ tok.Type \notin {"none", "EOF"}
     /\ lex.src[lex.start + 1] \in {"\"", "'"}
     /\ Fails(lex.src, lex.start + 2, lex.src[lex.start + 1])) =>
        /\ tok.errors >= 1
        /\ tok.Type = "ILLEGAL"

\* the linked blocks that are not full
NotFull(p) == {b \in Linked(p) : p.heap[b].used # Slots}

\* the block that is not full and closest to the tail: every other block
\* that is not full is reached from it towards the root
ClosestToTail(p) ==
    CHOOSE b \in NotFull(p) :
        \A c \in NotFull(p) \ {b} : c \in chain_prev(p, p.heap[b].prev, MaxBlocks)

\* the bitmaps of the blocks other than b are what they were
OthersKept(b) ==
    \A c \in Linked(pool) \ {b} : c \in Linked(pool') /\ pool'.heap[c].used = pool.heap[c].used

\* ddp_allocate_refcount has returned the address a
Allocated(a) == poolOp' = "alloc" /\ refcount' = a /\ held' = held \cup {a} /\ a \notin held

(***************************************************************************)
(* C16: a step of ddp_allocate_refcount takes the slot from the block      *)
(* closest to the tail that is not full; only when every linked block is   *)
(* full or the list is empty it appends a new empty block at the tail; in  *)
(* the chosen block it returns the free slot of the lowest index and sets  *)
(* the bit of that slot and no other.                                      *)
(***************************************************************************)
C16_AllocationStep ==
    \A b \in BlockIds : \A i \in Slots :
        Allocated(<<b, i>>) =>
            /\ OthersKept(b)
            /\ IF NotFull(pool) # {}
               THEN /\ b = ClosestToTail(pool)
                    /\ Linked(pool') = Linked(pool)
                    /\ pool'.end = pool.end
                    /\ i \notin pool.heap[b].used
                    /\ \A j \in 0..(i - 1) : j \in pool.heap[b].used
                    /\ pool'.heap[b].used = pool.heap[b].used \cup {i}
               ELSE /\ b \notin Linked(pool)
                    /\ Linked(pool') = Linked(pool) \cup {b}
                    /\ pool'.end = b
                    /\ pool'.heap[b].prev = pool.end
                    /\ pool'.heap[b].next = NULL
                    /\ i = 0
                    /\ pool'.heap[b].used = {0}

C16_AllocationChoice == [][C16_AllocationStep]_vars

\* an allocation has taken a slot that is not slot 0 from a block that is
\* not the tail, the tail being full
C16_Witness ==
    /\ poolOp = "alloc"
    /\ refcount[1] # pool.end
    /\ refcount[2] # 0
    /\ pool.heap[pool.end].used = Slots

\* the blocks block_cache holds
Cached(p) == {p.cache[k] : k \in 1..CACHED_BLOCKS} \ {NULL}

\* the blocks the system allocator has handed out and not got back
Allocations(p) == {b \in BlockIds : p.heap[b].mem = "alloc"}

\* ddp_free_refcount has cleared the slot a, the last used slot of its block
FreedLastSlot(a) ==
    /\ poolOp' = "free"
    /\ refcount' = a
    /\ a \in held
    /\ held' = held \ {a}
    /\ pool.heap[a[1]].used = {a[2]}

C17_FreeStep ==
    \A a \in BlockIds \X Slots :
        FreedLastSlot(a) =>
            /\ a[1] \notin Linked(pool')
            /\ a[1] \notin chain_next(pool', pool'.root, MaxBlocks)
            /\ Linked(pool') = Linked(pool) \ {a[1]}
            /\ IF Cardinality(Cached(pool)) < CACHED_BLOCKS
               THEN /\ Cached(pool') = Cached(pool) \cup {a[1]}
                    /\ Allocations(pool') = Allocations(pool)
               ELSE /\ Cached(pool') = Cached(pool)
                    /\ Allocations(pool') = Allocations(pool) \ {a[1]}

C17_AllocStep ==
    \A a \in BlockIds \X Slots :
        (Allocated(a) /\ NotFull(pool) = {}) =>
            IF Cached(pool) # {}
            THEN /\ a[1] \in Cached(pool)
                 /\ Cached(pool') = Cached(pool) \ {a[1]}
                 /\ Allocations(pool') = Allocations(pool)
            ELSE /\ a[1] \notin Allocations(pool)
                 /\ Allocations(pool') = Allocations(pool) \cup {a[1]}

\* the cache holds each block once, and the blocks it holds are the
\* allocated blocks that are not linked; there are at most CACHED_BLOCKS
C17_CacheBound ==
    /\ \A k, l \in 1..CACHED_BLOCKS : (pool.cache[k] # NULL /\ k # l) => pool.cache[k] # pool.cache[l]
    /\ Cached(pool) = Allocations(pool) \ Linked(pool)
    /\ Cardinality(Cached(pool)) <= CACHED_BLOCKS

(***************************************************************************)
(* C17: a step of ddp_free_refcount that clears the last used slot of a    *)
(* block unlinks the block, and puts it into block_cache if an entry of    *)
(* the cache is empty, else gives it back to the system allocator; a step  *)
(* of ddp_allocate_refcount that needs a new block takes it from the cache *)
(* if the cache holds one and asks the system allocator only otherwise;    *)
(* the cache never holds more than CACHED_BLOCKS blocks.                   *)
(***************************************************************************)
C17_BlockCache == []C17_CacheBound /\ [][C17_FreeStep /\ C17_AllocStep]_vars

\* the cache being full, a free has given a block back to the system
\* allocator, while a block allocated after it is still linked
C17_Witness ==
    /\ poolOp = "free"
    /\ pool.heap[refcount[1]].mem = "freed"
    /\ Cardinality(Cached(pool)) = CACHED_BLOCKS
    /\ \E b \in Linked(pool) : b > refcount[1]

\* the stores of the run into a variable or a list element that held a
\* heap object
Overwrites == {k \in 1..Len(run.log) : run.log[k].e = "store" /\ run.log[k].y # 0}

(***************************************************************************)
(* C18: in a run of a function with assignments to a text variable, to a   *)
(* text reference and to an element of a list of texts, every store that   *)
(* overwrites a heap value comes after the new value has been evaluated    *)
(* completely (its deep copy is made while the old value is alive) and     *)
(* directly after the one release of the old value; the old value is       *)
(* released exactly once, and the new value is alive when it is stored.    *)
(***************************************************************************)
C18_ReleaseThenStore ==
    /\ run.st # "ub"
    /\ \A k \in Overwrites :
          LET old == run.log[k].y
              new == run.log[k].x
          IN /\ k > 2
             /\ run.log[k - 1] = Event("free", old, 0)
             /\ \A j \in 1..Len(run.log) : run.log[j] = Event("free", old, 0) => j = k - 1
             /\ run.objs[old].frees = 1
             /\ \E j \in 1..(k - 2) : run.log[j].e = "copy" /\ run.log[j].y = new
             /\ \A j \in 1..k : run.log[j] # Event("free", new, 0)

\* a run has returned in which an assignment stored a copy of the old value
\* of its variable, and an assignment replaced an element the list was
\* passed with
C18_Witness ==
    /\ run.st = "ret"
    /\ \E k \in Overwrites : \E j \in 1..k :
          run.log[j] = Event("copy", run.log[k].y, run.log[k].x)
    /\ \E k \in Overwrites : run.log[k].y \in 3..(2 + MaxLen)

\* the releases of object o in the log of the run
Releases(o) == {m \in 1..Len(run.log) : run.log[m] = Event("free", o, 0)}

\* the call an entry of the log belongs to, and the return of that call (0
\* as long as the call has not returned)
CallOf(j) == CHOOSE k \in 1..j : run.log[k].e = "call" /\ \A m \in (k + 1)..j : run.log[m].e # "call"

ReturnOf(j) ==
    IF \E m \in j..Len(run.log) : run.log[m].e = "return"
    THEN CHOOSE m \in j..Len(run.log) : run.log[m].e = "return" /\ \A l \in j..(m - 1) : run.log[l].e # "return"
    ELSE 0

(***************************************************************************)
(* C19: in a run of a function that calls g, the text passed by value is   *)
(* never released twice; once the call has returned it has been released   *)
(* exactly once: inside g when g is a function of the module, and by the   *)
(* caller directly after the return when g is extern. The text whose slot  *)
(* is passed by reference is released neither inside g nor more than once  *)
(* in all.                                                                 *)
(***************************************************************************)
C19_ArgumentsReleasedOnce ==
    \A j \in 1..Len(run.log) :
        LET o == run.log[j].x
            user == run.log[CallOf(j)].x = 1
            return == ReturnOf(j)
        IN /\ run.log[j].e = "arg" =>
                /\ Cardinality(Releases(o)) <= 1
                /\ run.objs[o].frees <= 1
                /\ return # 0 =>
                      /\ Releases(o) # {}
                      /\ \A m \in Releases(o) :
                            IF user THEN j < m /\ m < return ELSE m = return + 1
           /\ run.log[j].e = "ref" =>
                /\ Cardinality(Releases(o)) <= 1
                /\ \A m \in Releases(o) : m < j \/ (return # 0 /\ m > return)

\* the copies of the list tl the function was passed (object 2): the
\* iterable temporaries of the loops over tl
Iterables == {run.log[k].y : k \in {j \in 1..Len(run.log) : run.log[j] = Event("copy", 2, run.log[j].y)}}

\* the deep copies of the elements of an iterable: the values of the loop
\* variable
LoopCopies ==
    {run.log[k].y : k \in {j \in 1..Len(run.log) :
        /\ run.log[j].e = "copy"
        /\ \E it \in Iterables : \E n \in 1..Len(run.objs[it].elems) : run.objs[it].elems[n] = run.log[j].x}}

C25_FreshStep ==
    \A a \in BlockIds \X Slots :
        (poolOp' = "alloc" /\ refcount' = a) => (a \notin held /\ held' = held \cup {a})

\* the addresses whose used bit is set in a linked block
UsedSlots(p) == {a \in BlockIds \X Slots : a[1] \in Linked(p) /\ a[2] \in p.heap[a[1]].used}

C25_NoSharedAddress == [](UsedSlots(pool) = held) /\ [][C25_FreshStep]_vars

\* an allocation has linked anew, at the tail, a block that was emptied
\* before (it is older than its predecessor), two other addresses in use
C25_Witness ==
    /\ poolOp = "alloc"
    /\ refcount[1] = pool.end
    /\ pool.heap[pool.end].prev # NULL
    /\ pool.end < pool.heap[pool.end].prev
    /\ Cardinality(held) >= 3

(***************************************************************************)
(* C26: the block list is a well-formed doubly linked list: refc_root is   *)
(* null exactly when refc_end is null, refc_root has no predecessor,       *)
(* refc_end has no successor, next and prev are inverse to each other      *)
(* along the list (which is the same from both ends), no linked block is   *)
(* in the cache and no block is in two cache entries.                      *)
(***************************************************************************)
C26_WellFormedList ==
    /\ (pool.root = NULL) <=> (pool.end = NULL)
    /\ pool.root # NULL => pool.heap[pool.root].prev = NULL
    /\ pool.end # NULL => pool.heap[pool.end].next = NULL
    /\ \A b \in Linked(pool) :
          /\ pool.heap[b].next # NULL => pool.heap[pool.heap[b].next].prev = b
          /\ pool.heap[b].prev # NULL => pool.heap[pool.heap[b].prev].next = b
          /\ pool.heap[b].prev = NULL => b = pool.root
          /\ pool.heap[b].next = NULL => b = pool.end
    /\ chain_next(pool, pool.root, MaxBlocks) = Linked(pool)
    /\ Linked(pool) \cap Cached(pool) = {}
    /\ \A k, l \in 1..CACHED_BLOCKS :
          (k # l /\ pool.cache[k] # NULL) => pool.cache[k] # pool.cache[l]

\* a free has unlinked a block from the middle of the list and put it into
\* the cache (the block still carries the neighbours it had)
C26_Witness ==
    /\ poolOp = "free"
    /\ refcount[1] \in Cached(pool)
    /\ pool.heap[refcount[1]].prev # NULL
    /\ pool.heap[refcount[1]].next # NULL
    /\ pool.heap[pool.root].next = pool.end

(***************************************************************************)
(* C27: between two public pool operations every linked block has at least *)
(* one used slot, and a block that an allocation appends holds the slot    *)
(* that the same allocation returns.                                       *)
(***************************************************************************)
C27_AppendStep ==
    \A b \in BlockIds :
        (poolOp' = "alloc" /\ b \in Linked(pool') \ Linked(pool)) =>
            /\ refcount'[1] = b
            /\ pool'.heap[b].used = {refcount'[2]}

C27_NoEmptyBlock ==
    /\ [](\A b \in Linked(pool) : pool.heap[b].used # ALL_FREE)
    /\ [][C27_AppendStep]_vars

\* an allocation has appended a block behind a full one
C27_Witness ==
    /\ poolOp = "alloc"
    /\ refcount[1] = pool.end
    /\ pool.heap[pool.end].used = {refcount[2]}
    /\ pool.heap[pool.end].prev # NULL
    /\ pool.heap[pool.heap[pool.end].prev].used = ALL_USED

(***************************************************************************)
(* C24: after ByteSammlung_Verkettet(ret, a, b), ret.len = a.len + b.len,  *)
(* the bytes 0..a.len-1 of ret are the bytes of a, the bytes               *)
(* a.len..ret.len-1 of ret are the bytes of b, and the bytes behind them   *)
(* up to the next multiple of 8 are zero.                                  *)
(***************************************************************************)
C24_IsConcatenation ==
    bsIn.called =>
        /\ ~bsRet.ub
        /\ bsRet.len = bsIn.a.len + bsIn.b.len
        /\ Len(bsRet.bytes) = UP_8(bsRet.len)
        /\ \A k \in 1..bsIn.a.len : bsRet.bytes[k] = bsIn.a.bytes[k]
        /\ \A k \in 1..bsIn.b.len : bsRet.bytes[bsIn.a.len + k] = bsIn.b.bytes[k]
        /\ \A k \in (bsRet.len + 1)..UP_8(bsRet.len) : bsRet.bytes[k] = 0

\* execute_process has returned the exit status of the child and everything
\* the child wrote
ReturnedComplete ==
    /\ proc.ppc = "returned"
    /\ proc.ret = proc.status
    /\ IF proc.need_stderr
       THEN proc.stdoutput = proc.outLen /\ proc.erroutput = proc.errLen
       ELSE proc.stdoutput = proc.outLen + proc.errLen

(***************************************************************************)
(* C30: with a child that reads its standard input to the end, writes a    *)
(* finite amount to standard output and standard error and exits,          *)
(* execute_process eventually returns the exit status of the child with    *)
(* the complete output, whatever the sizes of input and output are         *)
(* relative to the capacity of a pipe.                                     *)
(***************************************************************************)
C30_EventuallyReturns == <>ReturnedComplete

\* the tokens of the file from its item k on, every directive replaced by
\* the tokens of the file it names unless that file is in seen (or cannot be
\* read); seen grows with every file included
RECURSIVE Expand(_, _, _, _)
Expand(disk, file, k, seen) ==
    LET src == Items(disk[Abs(file)])
    IN IF k > Len(src) THEN [toks |-> <<>>, seen |-> seen]
       ELSE IF src[k].type = "TOKEN"
       THEN LET rest == Expand(disk, file, k + 1, seen)
            IN [toks |-> <<[type |-> "TOKEN", file |-> file, n |-> k]>> \o rest.toks,
                seen |-> rest.seen]
       ELSE LET path  == inclPath([file |-> file], src[k].lit)
                inner == IF path \in seen \/ ~Readable(path)
                         THEN [toks |-> <<>>, seen |-> seen]
                         ELSE Expand(disk, path, 1, seen \cup {path})
                rest  == Expand(disk, file, k + 1, inner.seen)
            IN [toks |-> inner.toks \o rest.toks, seen |-> rest.seen]

\* the token stream of the root file: its expansion, then its EOF
Expanded ==
    Expand(fs, RootPath, 1, {Abs(RootPath)}).toks
        \o <<[type |-> "EOF", file |-> RootPath, n |-> Len(fs[Abs(RootPath)]) + 1]>>

C23_InPlace ==
    /\ Len(out) <= Len(Expanded)
    /\ out = SubSeq(Expanded, 1, Len(out))
    /\ \A i \in 1..(Len(out) - 1) : out[i].type # "EOF"

(***************************************************************************)
(* C23: the tokens ScanAll collects are the tokens of the root file with   *)
(* every include directive replaced, in place, by the tokens of the file   *)
(* it includes (and of the files that one includes); the EOF of an         *)
(* included file is not among them, and the stream ends with one EOF       *)
(* token, that of the root file.                                           *)
(***************************************************************************)
C23_ExpandedInPlace == []C23_InPlace /\ <>(ScanFinished /\ out = Expanded)

\* a scan is over in which the root file ends with a directive, an included
\* file has no token of its own, and a file included from an included file
\* has tokens
C23_Witness ==
    /\ ScanFinished
    /\ fs[<<"/", "p", "a">>] # <<>>
    /\ fs[<<"/", "p", "a">>][Len(fs[<<"/", "p", "a">>])] = <<"b">>
    /\ fs[<<"/", "p", "b">>] = << <<"sub", "c">> >>
    /\ fs[<<"/", "p", "sub", "c">>] = <<Tok>>
    /\ \E i \in 1..Len(out) : out[i].file = <<"/", "p", "sub", "c">>

\* the function a run is in, or has returned from
Running(fn) == stage = "compiled" /\ run.st \in {"run", "ret", "ub", "trap"} /\ mod.blocks[run.blk].fn = fn

\* the first arguments of the calls of a run, in the order of the calls:
\* the operands of p, the counters handed to tick
Called == LET ints == SelectSeq(run.log, LAMBDA a : a.e = "int" /\ a.y = 1)
          IN [k \in 1..Len(ints) |-> ints[k].x]

RECURSIVE Truth(_)
\* the conjunction and the disjunction of the truth values of the operands
Truth(e) ==
    CASE e.node = "FuncCall" -> e.kids[2].params[1]
      [] e.name = "UND" -> IF Truth(e.kids[1]) = 1 /\ Truth(e.kids[2]) = 1 THEN 1 ELSE 0
      [] e.name = "ODER" -> IF Truth(e.kids[1]) = 1 \/ Truth(e.kids[2]) = 1 THEN 1 ELSE 0

RECURSIVE OperandsDue(_)
\* the operands that are to be evaluated: the right operand of und only
\* where the left one is true, of oder only where it is false
OperandsDue(e) ==
    IF e.node = "FuncCall" THEN <<e.kids[1].params[1]>>
    ELSE OperandsDue(e.kids[1])
         \o (IF (e.name = "UND") = (Truth(e.kids[1]) = 1) THEN OperandsDue(e.kids[2]) ELSE <<>>)

\* the expression f returns
LogicExpr == ast.Statements[2].kids[1].kids[1].kids[1]

\* C21: in the code emitted for a und b the code of b runs only where a was
\* true, for a oder b only where a was false, and the value of the phi is
\* the conjunction (disjunction) of the operands, also where b spans
\* several blocks: at every block of a run of f the operands called so far
\* are the first of those that are to be evaluated, and f returns the truth
\* value of the expression after all of them
C21_ShortCircuit ==
    Running("f") =>
        /\ run.st \in {"run", "ret"}
        /\ Len(Called) <= Len(OperandsDue(LogicExpr))
        /\ Called = SubSeq(OperandsDue(LogicExpr), 1, Len(Called))
        /\ run.st = "ret" => /\ Called = OperandsDue(LogicExpr)
                             /\ run.ret = RunValue("int", Truth(LogicExpr), 0)

\* a und (b oder c) has returned true after b, which was false, and c
C21_Witness ==
    /\ Running("f")
    /\ run.st = "ret"
    /\ LogicExpr.name = "UND"
    /\ LogicExpr.kids[2].node = "BinaryExpr"
    /\ LogicExpr.kids[2].name = "ODER"
    /\ Truth(LogicExpr.kids[2].kids[1]) = 0
    /\ Called = <<0, 1, 2>>
    /\ run.ret = RunValue("int", 1, 0)

RECURSIVE Countdown(_)
\* the values of i the body is to see from i on, while i is above 0
Countdown(i) == IF i > 0 THEN <<i>> \o Countdown(wrap(i - 1)) ELSE <<>>

\* the loop of w, and the argument w was called with
Loop == ast.Statements[2].kids[1].kids[1]

Argument == run.args[1].a

\* what the body of the loop of w is to hand to tick, one after the other
Executions ==
    CASE Loop.name = "SOLANGE" -> Countdown(Argument)
      [] Loop.name = "MACHE" -> <<Argument>> \o Countdown(wrap(Argument - 1))
      [] Loop.name = "WIEDERHOLE" -> [k \in 1..Argument |-> Argument]

C22_Counted ==
    (Running("w") /\ (Loop.name = "WIEDERHOLE" => Argument >= 0)) =>
        /\ run.st \in {"run", "ret"}
        /\ Len(Called) <= Len(Executions)
        /\ Called = SubSeq(Executions, 1, Len(Called))
        /\ run.st = "ret" => Called = Executions

\* C22: solange tests its condition before the first execution of the body
\* (no execution where it is false at first), mache executes the body once
\* before the first test, and wiederhole n Mal executes the body exactly n
\* times for n >= 0; then the loop is left: the function returns
C22_LoopsCounted == []C22_Counted /\ []((Running("w") /\ run.st = "run") => <>(run.st = "ret"))

\* Wiederhole 3 Mal has returned after three executions of its body
C22_Witness ==
    /\ Running("w")
    /\ run.st = "ret"
    /\ Loop.name = "WIEDERHOLE"
    /\ Argument = 3
    /\ Called = <<3, 3, 3>>

\* the start value and bis of the loop of w
ForStart == IF Loop.kids[1].kids[1].node = "IntLit" THEN Loop.kids[1].kids[1].params[1] ELSE Argument

ForTo == Loop.kids[2].params[1]

\* C29: in a numeric for loop with a constant bis and the default step 1
\* every counter value the body sees lies between the start value and bis,
\* and the body is executed at most |bis - start| + 1 times, for start <=
\* bis and for start > bis
C29_ForBounded ==
    Running("w") =>
        /\ \A k \in 1..Len(Called) :
              \/ ForStart <= Called[k] /\ Called[k] <= ForTo
              \/ ForTo <= Called[k] /\ Called[k] <= ForStart
        /\ Len(Called) <= (IF ForTo >= ForStart THEN ForTo - ForStart ELSE ForStart - ForTo) + 1

\* C28: the emitter is total on what the type checker accepts: a binary
\* expression or a cast the type checker has passed without a diagnostic is
\* lowered without the call of err, and the IR type of the value is the IR
\* type of the type the type checker has assigned
C28_EmitterTotal ==
    lowered.done => /\ ~lowered.panic
                    /\ lowered.typ = toIRType(returned.typ)

=============================================================================
